---- MODULE Spec2Model ----
(***************************************************************************)
(* Ingestion pipeline of fundaeai/chatbot: the orchestrator                *)
(* (CompleteIngestionPipeline) with the files it leaves on the disk, the   *)
(* embedding batcher, the chunkers, the relevance score, the drawing       *)
(* extractor of the PDF extractor, the context builder of the RAG side     *)
(* and the job table of the ingestion API.                                 *)
(*                                                                         *)
(* One module holds several state machines; each specification runs one    *)
(* of them and keeps the variables of the others at their idle value.      *)
(***************************************************************************)
EXTENDS Integers, Sequences, FiniteSets, TLC

VARIABLES
    storage_available,  \* StorageChecker.storage_available
    blobs,              \* names of the blobs the container holds
    index_uploads,      \* successful search_client.upload_documents calls
    processed_files,    \* CompleteIngestionPipeline.processed_files
    skipped_files,      \* CompleteIngestionPipeline.skipped_files
    failed_files,       \* CompleteIngestionPipeline.failed_files
    call,               \* frame of process_file_with_storage_check
    batch,              \* frame of process_batch_with_storage_check
    calls_made,         \* process_file_with_storage_check calls so far
    calls_returned,     \* the calls among them that returned a result
    files,              \* the files of temp_images and test_outputs
    emb,                \* frame of EmbeddingService._generate_embeddings_batch
    ck,                 \* inputs and outputs of the chunkers
    sc,                 \* inputs and output of _calculate_relevance_score
    dr,                 \* input and output of _extract_drawing_elements
    aug,                \* frame of AugmentationComponent._build_context
    api                 \* processing_jobs and the background tasks of the API

vars == <<storage_available, blobs, index_uploads, processed_files,
          skipped_files, failed_files, call, batch, calls_made,
          calls_returned, files, emb, ck, sc, dr, aug, api>>

pipevars == <<storage_available, blobs, index_uploads, processed_files,
              skipped_files, failed_files, call, batch, calls_made,
              calls_returned, files>>

(***************************************************************************)
(* Bounds of the model.                                                    *)
(***************************************************************************)
MaxCalls == 2        \* process_file_with_storage_check calls on one instance
MaxBatch == 2        \* longest file list given to the batch entry point

Min(a, b) == IF a < b THEN a ELSE b
Max(a, b) == IF a > b THEN a ELSE b

\* Python dicts: 'key' in d, d.get(key, default), d[key] = value
HasKey(d, key) == key \in DOMAIN d
Get(d, key, default) == IF HasKey(d, key) THEN d[key] ELSE default
Put(d, key, value) == (key :> value) @@ d

(***************************************************************************)
(* The local file system.  A path is the sequence of its components, so    *)
(* Path(p).name is the last one.                                           *)
(***************************************************************************)
PathT      == <<"uploads", "20240101_a.pdf">>   \* api: timestamp + filename
PathLocked == <<"docs", "locked.pdf">>          \* exists, cannot be opened
PathGone   == <<"docs", "gone.pdf">>            \* does not exist
Paths      == {PathT, PathLocked, PathGone}

PathName(p) == p[Len(p)]

os_path_exists(p) == p \in {PathT, PathLocked}
CanOpen(p)        == p \in {PathT}
\* sha256 of the bytes of the file
Sha256(p)         == <<"sha256", p>>

NoName        == ""                     \* original_filename=None (falsy)
OriginalNames == {NoName, "a.pdf"}

(***************************************************************************)
(* ChunkingService.chunk_document.  text_chunks is what the splitter       *)
(* returned: a sequence of pieces [content, page]; page is the number in   *)
(* the first "--- Page N ---" marker of the piece, 0 without marker.       *)
(***************************************************************************)
_extract_page_number(chunk) == chunk.page

TextChunk(i, piece) ==
    [id |-> <<"text_chunk", i>>, content |-> piece.content,
     chunk_type |-> "text", chunk_index |-> i,
     page_number |-> _extract_page_number(piece)]

VisualIndex(len_chunks, i) == len_chunks + i

VisualChunk(chunks, i, analysis) ==
    [id |-> <<"visual_chunk", i>>,
     content |-> <<"[Image Summary: ", analysis.analysis, "]">>,
     chunk_type |-> "visual",
     chunk_index |-> VisualIndex(Len(chunks), i),
     page_number |-> analysis.page_number]

RECURSIVE AppendVisualChunks(_, _, _)
AppendVisualChunks(chunks, visual_analysis, i) ==
    IF i >= Len(visual_analysis) THEN chunks
    ELSE AppendVisualChunks(
             Append(chunks, VisualChunk(chunks, i, visual_analysis[i + 1])),
             visual_analysis, i + 1)

chunk_document(text_chunks, visual_analysis) ==
    AppendVisualChunks(
        [k \in 1..Len(text_chunks) |-> TextChunk(k - 1, text_chunks[k])],
        visual_analysis, 0)

(***************************************************************************)
(* Results MultimodalPipeline.process_document can return with success:    *)
(* text_chunks is the splitter's view of result['text_content'], the text  *)
(* of the extractor; the analyses are under the key 'image_analyses'.      *)
(***************************************************************************)
Piece(c, p)    == [content |-> c, page |-> p]
Analysis(d, p) == [analysis |-> d, page_number |-> p, success |-> TRUE]

EmptyDoc  == [text_chunks |-> <<>>, image_analyses |-> <<>>]
TextDoc   == [text_chunks |-> <<Piece("t1", 1), Piece("t2", 0)>>,
              image_analyses |-> <<>>]
VisualDoc == [text_chunks |-> <<Piece("t1", 1)>>,
              image_analyses |-> <<Analysis("d1", 1), Analysis("d2", 1)>>]
Documents == {EmptyDoc, TextDoc, VisualDoc}

(***************************************************************************)
(* StorageChecker.                                                         *)
(***************************************************************************)
file_exists_in_storage_FailClosed(file_path, raises) ==
    IF ~storage_available THEN FALSE
    ELSE IF raises THEN TRUE
    ELSE PathName(file_path) \in blobs
\* line 211: the blob the check asks the store for; none without a store
ProbedName(file_path) ==
    IF storage_available THEN PathName(file_path) ELSE NoName

\* lines 236-243: the blob upload_to_storage writes; none without a store
UploadName(file_path, blob_name) ==
    IF ~storage_available THEN NoName
    ELSE IF blob_name = NoName THEN PathName(file_path)
    ELSE blob_name

\* raises: the store call raised (any error but "blob not found")
file_exists_in_storage(file_path, raises) ==
    IF ~storage_available THEN FALSE
    ELSE IF raises THEN FALSE
    ELSE PathName(file_path) \in blobs

ProbeOutcome(raises) ==
    IF ~storage_available THEN "unavailable"
    ELSE IF raises THEN "error" ELSE "answered"

BlobFilename(original_filename, file_path) ==
    IF original_filename # NoName THEN original_filename
    ELSE PathName(file_path)

(***************************************************************************)
(* EmbeddingService: its settings, the service's answer to one call and    *)
(* the zero vectors of a failed batch.  A vector is [dim, zero].           *)
(***************************************************************************)
max_retries      == 3
retry_delay      == 1
DefaultBatchSize == 16
ZeroDimension    == 1536

BatchSizes  == {1, 2, DefaultBatchSize}
\* text-embedding-ada-002 / text-embedding-3-large
ServiceDims == {ZeroDimension, 2 * ZeroDimension}

RECURSIVE Pow2(_)
Pow2(k) == IF k = 0 THEN 1 ELSE 2 * Pow2(k - 1)

\* texts[i:i + batch_size]
BatchTexts(texts, i, batch_size) ==
    SubSeq(texts, i + 1, Min(i + batch_size, Len(texts)))

\* response.data: the embeddings API answers one embedding per input
ServiceResponse(batch_texts, dim) ==
    [k \in 1..Len(batch_texts) |-> [dim |-> dim, zero |-> FALSE]]

ZeroVectors_One(n) == <<[dim |-> ZeroDimension, zero |-> TRUE]>>
\* [[0.0] * 1536] * len(batch_texts)
ZeroVectors(n) == [k \in 1..n |-> [dim |-> ZeroDimension, zero |-> TRUE]]

\* lines 77-109 as a function of the batches whose every attempt failed
\* (failed holds their start offsets)
RECURSIVE EmbeddingsFrom(_, _, _, _, _)
EmbeddingsFrom(texts, i, batch_size, dim, failed) ==
    IF i >= Len(texts) THEN <<>>
    ELSE LET batch_texts == BatchTexts(texts, i, batch_size)
             batch_embeddings ==
                 IF i \in failed THEN ZeroVectors(Len(batch_texts))
                 ELSE ServiceResponse(batch_texts, dim)
         IN  batch_embeddings
             \o EmbeddingsFrom(texts, i + batch_size, batch_size, dim, failed)

_generate_embeddings_batch(texts, batch_size, dim, failed) ==
    EmbeddingsFrom(texts, 0, batch_size, dim, failed)

generate_embeddings_Abort(chunks, dim, failed) ==
    IF failed # {} THEN <<>>
    ELSE [k \in 1..Len(chunks) |->
             Put(chunks[k], "embedding", [dim |-> dim, zero |-> FALSE])]
\* lines 49-61: zip(chunks, embeddings) puts each vector on its chunk
generate_embeddings(chunks, dim, failed) ==
    LET texts      == [k \in 1..Len(chunks) |-> chunks[k].content]
        embeddings == _generate_embeddings_batch(texts, DefaultBatchSize,
                                                 dim, failed)
    IN  [k \in 1..Len(chunks) |->
            IF k <= Len(embeddings)
            THEN Put(chunks[k], "embedding", embeddings[k])
            ELSE chunks[k]]

\* the batches of a chunk list
BatchStarts(chunks) ==
    {i \in 0..Len(chunks) : i < Len(chunks) /\ i % DefaultBatchSize = 0}

(***************************************************************************)
(* AzureAISearchService.upload_chunks: the documents it builds.            *)
(***************************************************************************)
\* lines 389-407: every path of the model ends in .pdf and its stem holds
\* none of the keywords
_extract_tags(file_path) == <<"type:pdf">>

\* lines 316-322
Metadata(file_path, file_hash) ==
    [filename |-> PathName(file_path), file_path |-> file_path,
     file_hash |-> file_hash, tags |-> _extract_tags(file_path)]

\* lines 161-171; the id ends in a random suffix
IndexDoc(chunk, metadata) ==
    [id |-> <<metadata.filename, chunk.id>>,
     content |-> chunk.content,
     chunk_index |-> chunk.chunk_index,
     filename |-> metadata.filename,
     page_number |-> chunk.page_number,
     chunk_type |-> chunk.chunk_type,
     tags |-> Get(metadata, "tags", <<>>),
     upload_date |-> "utcnow"]

\* lines 159-172
IndexDocs(chunks, metadata) ==
    [k \in 1..Len(chunks) |-> IndexDoc(chunks[k], metadata)]

(***************************************************************************)
(* The working directory.  temp_images holds the files of the visual       *)
(* elements, test_outputs the saved outputs.  A name is the sequence of    *)
(* the parts it is written from, the extension last.                       *)
(***************************************************************************)
\* Path(file_path).stem
Stem(file_path) ==
    IF file_path = PathT THEN <<"20240101_a">>
    ELSE IF file_path = PathLocked THEN <<"locked">>
    ELSE <<"gone">>

\* documents of other runs: "20240101_a2.pdf" and "other.pdf"
PrefixedStem == <<"20240101_a", "2">>
OtherStem    == <<"other">>

\* pdf_extractor.py lines 191-195: the file of a visual element
ElementFile(stem) ==
    [dir |-> "temp_images",
     name |-> stem \o <<"_", "page1_visual_elem1", ".png">>,
     owner |-> stem, kind |-> "visual_element"]

\* multimodal_pipeline.py lines 241-250: a saved output
OutputFile(stem) ==
    [dir |-> "test_outputs",
     name |-> stem \o <<"_", "pipeline_output_ts", ".json">>,
     owner |-> stem, kind |-> "saved_output"]

\* what other runs left in the two directories
OtherFiles ==
    {ElementFile(PrefixedStem), ElementFile(OtherStem),
     OutputFile(PrefixedStem), OutputFile(OtherStem)}

\* glob "prefix*"
HasPrefix(name, prefix) ==
    /\ Len(prefix) <= Len(name)
    /\ SubSeq(name, 1, Len(prefix)) = prefix

\* cleanup_utility.py lines 73, 86: "*.png" ... "*.tiff", "*.tmp", "*.temp"
CleanedExtensions ==
    {".png", ".jpg", ".jpeg", ".gif", ".bmp", ".tiff", ".tmp", ".temp"}

\* CleanupUtility.cleanup_directory, lines 54-108
cleanup_directory(fs, directory) ==
    {f \in fs : ~( /\ f.dir = directory
                   /\ f.name[Len(f.name)] \in CleanedExtensions )}

\* CleanupUtility.cleanup_all_temp_files, lines 29-52; the model has no
\* file in the working directory itself
cleanup_all_temp_files(fs) ==
    cleanup_directory(cleanup_directory(fs, "temp_images"), "test_outputs")

\* MultimodalPipeline._cleanup_temp_files, lines 272-299: the extractors
\* delete the files they wrote, then the utility cleans both directories
PipelineCleanup(fs, temp_files) == cleanup_all_temp_files(fs \ temp_files)

\* CompleteIngestionPipeline._cleanup_temp_files, lines 409-432
_cleanup_temp_files(fs, file_path) ==
    LET base_name == Stem(file_path)
    IN  {f \in fs :
            ~( /\ f.dir \in {"temp_images", "test_outputs"}
               /\ \/ HasPrefix(f.name, base_name \o <<"_">>)
                  \/ HasPrefix(f.name, base_name) )}

(***************************************************************************)
(* Frames.                                                                 *)
(***************************************************************************)
NoResult == [success |-> FALSE, status |-> "none", error |-> "none",
             file |-> <<>>, file_hash |-> <<>>,
             blob_storage_uploaded |-> FALSE]

IdleCall ==
    [pc |-> "idle", file_path |-> <<>>, original_filename |-> NoName,
     force_reprocess |-> FALSE, save_outputs |-> FALSE,
     auto_cleanup |-> TRUE, caller |-> "none",
     file_exists |-> FALSE, probe |-> "none", file_hash |-> <<>>,
     doc |-> EmptyDoc, chunks |-> <<>>, failed_batches |-> {},
     docs |-> <<>>, written |-> {},
     probed_name |-> NoName, blob_name |-> NoName,
     upload_success |-> FALSE,
     result |-> NoResult, trace |-> <<>>,
     pre |-> [blobs |-> {}, index_uploads |-> 0, processed |-> <<>>,
              skipped |-> <<>>, failed |-> <<>>, files |-> {}]]

IdleBatch ==
    [status |-> "idle", file_paths |-> <<>>, i |-> 0, results |-> <<>>,
     force_reprocess |-> FALSE, save_outputs |-> FALSE,
     auto_cleanup |-> TRUE]

Snapshot ==
    [blobs |-> blobs, index_uploads |-> index_uploads,
     processed |-> processed_files, skipped |-> skipped_files,
     failed |-> failed_files, files |-> files]

NewCall(file_path, original_filename, force, save, cleanup, caller) ==
    [IdleCall EXCEPT !.pc = "start", !.file_path = file_path,
                     !.original_filename = original_filename,
                     !.force_reprocess = force,
                     !.save_outputs = save,
                     !.auto_cleanup = cleanup,
                     !.caller = caller, !.pre = Snapshot]

Called(name) == Append(call.trace, name)
InTrace(name) == \E k \in 1..Len(call.trace) : call.trace[k] = name

othersIdle == UNCHANGED <<emb, ck, sc, dr, aug, api>>

(***************************************************************************)
(* CompleteIngestionPipeline.process_file_with_storage_check, one action   *)
(* per step of the method.  call.trace lists the collaborators it called.  *)
(***************************************************************************)
Failure(error) ==
    [NoResult EXCEPT !.error = error, !.file = call.file_path]

FailedEntry(error) == [file |-> call.file_path, error |-> error]

\* A direct call by a client of the orchestrator (api/main.py:195, tests).
StartCall ==
    /\ call.pc = "idle" /\ batch.status = "idle"
    /\ calls_made < MaxCalls
    /\ \E file_path \in Paths, original_filename \in OriginalNames,
          force_reprocess \in BOOLEAN, save_outputs \in BOOLEAN,
          auto_cleanup \in BOOLEAN :
          call' = NewCall(file_path, original_filename, force_reprocess,
                          save_outputs, auto_cleanup, "direct")
    /\ calls_made' = calls_made + 1
    /\ UNCHANGED <<storage_available, blobs, index_uploads, processed_files,
                   skipped_files, failed_files, batch,
                   calls_returned, files>>
    /\ othersIdle

\* lines 280-284
FileNotFound ==
    /\ call.pc = "start"
    /\ ~os_path_exists(call.file_path)
    /\ failed_files' = Append(failed_files, FailedEntry("File not found"))
    /\ call' = [call EXCEPT !.pc = "returned",
                            !.result = Failure("File not found")]
    /\ calls_returned' = calls_returned + 1
    /\ UNCHANGED <<storage_available, blobs, index_uploads, processed_files,
                   skipped_files, batch, calls_made,
                   files>>
    /\ othersIdle

\* line 286
ExistsCheck ==
    /\ call.pc = "start"
    /\ os_path_exists(call.file_path)
    /\ \E raises \in (IF storage_available THEN BOOLEAN ELSE {FALSE}) :
          call' = [call EXCEPT
                      !.pc = "decide",
                      !.file_exists =
                          file_exists_in_storage(call.file_path, raises),
                      !.probe = ProbeOutcome(raises),
                      !.probed_name = ProbedName(call.file_path),
                      !.trace = Called("file_exists_in_storage")]
    /\ UNCHANGED <<storage_available, blobs, index_uploads, processed_files,
                   skipped_files, failed_files, batch, calls_made,
                   calls_returned, files>>
    /\ othersIdle

ShouldSkip_IgnoreForce(file_exists, force_reprocess) == file_exists
\* line 288
ShouldSkip(file_exists, force_reprocess) == file_exists /\ ~force_reprocess

SkippedResult ==
    [NoResult EXCEPT !.success = TRUE, !.status = "skipped",
                     !.file = call.file_path]

SkipBranch_NoReturn ==
    /\ call.pc = "decide"
    /\ ShouldSkip(call.file_exists, call.force_reprocess)
    /\ skipped_files' = Append(skipped_files, call.file_path)
    /\ call' = [call EXCEPT !.pc = "hash"]
    /\ UNCHANGED <<storage_available, blobs, index_uploads, processed_files,
                   failed_files, batch, calls_made,
                   calls_returned, files>>
    /\ othersIdle
\* lines 288-296
SkipBranch ==
    /\ call.pc = "decide"
    /\ ShouldSkip(call.file_exists, call.force_reprocess)
    /\ skipped_files' = Append(skipped_files, call.file_path)
    /\ call' = [call EXCEPT !.pc = "returned", !.result = SkippedResult]
    /\ calls_returned' = calls_returned + 1
    /\ UNCHANGED <<storage_available, blobs, index_uploads, processed_files,
                   failed_files, batch, calls_made,
                   files>>
    /\ othersIdle

Proceed ==
    /\ call.pc = "decide"
    /\ ~ShouldSkip(call.file_exists, call.force_reprocess)
    /\ call' = [call EXCEPT !.pc = "hash"]
    /\ UNCHANGED <<storage_available, blobs, index_uploads, processed_files,
                   skipped_files, failed_files, batch, calls_made,
                   calls_returned, files>>
    /\ othersIdle

\* line 298 and get_file_hash: open() succeeds
HashOk ==
    /\ call.pc = "hash"
    /\ CanOpen(call.file_path)
    /\ call' = [call EXCEPT !.pc = "extract",
                            !.file_hash = Sha256(call.file_path),
                            !.trace = Called("get_file_hash")]
    /\ UNCHANGED <<storage_available, blobs, index_uploads, processed_files,
                   skipped_files, failed_files, batch, calls_made,
                   calls_returned, files>>
    /\ othersIdle

\* line 298, outside the try: open() raises and the call raises
HashRaises ==
    /\ call.pc = "hash"
    /\ ~CanOpen(call.file_path)
    /\ call' = [call EXCEPT !.pc = "raised",
                            !.trace = Called("get_file_hash")]
    /\ UNCHANGED <<storage_available, blobs, index_uploads, processed_files,
                   skipped_files, failed_files, batch, calls_made,
                   calls_returned, files>>
    /\ othersIdle

\* MultimodalPipeline.process_document, lines 72-96: the steps it runs
\* itself, with its own chunker and embedding service, before it returns
ProcessDocumentSteps ==
    <<"process_document", "pipeline.extract_content",
      "pipeline.chunk_with_image_context", "pipeline.generate_embeddings">>

\* lines 74-77: extract_content did not succeed
ProcessDocumentFailedSteps ==
    <<"process_document", "pipeline.extract_content">>

\* the files extract_content writes for a document: one for its visual
\* elements when it has any
TempFiles(file_path, doc) ==
    IF doc.image_analyses # <<>> THEN {ElementFile(Stem(file_path))} ELSE {}

\* multimodal_pipeline.py lines 104-106
SavedOutputs(file_path, save_outputs) ==
    IF save_outputs THEN {OutputFile(Stem(file_path))} ELSE {}

\* process_document(file_path, save_outputs=save_outputs): auto_cleanup is
\* not given and takes its default, True (multimodal_pipeline.py line 54)
ProcessDocumentCleanup == TRUE

\* multimodal_pipeline.py lines 72-110, what the call leaves on the disk
process_document_files(fs, file_path, doc, save_outputs, auto_cleanup) ==
    LET temp_files == TempFiles(file_path, doc)
        written == fs \cup temp_files
                      \cup SavedOutputs(file_path, save_outputs)
    IN  IF auto_cleanup THEN PipelineCleanup(written, temp_files)
        ELSE written

\* line 302, result['success'] true
ExtractOk ==
    /\ call.pc = "extract"
    /\ \E doc \in Documents :
          /\ call' = [call EXCEPT
                         !.pc = "chunk", !.doc = doc,
                         !.written =
                             TempFiles(call.file_path, doc)
                                \cup SavedOutputs(call.file_path,
                                                  call.save_outputs),
                         !.result = [NoResult EXCEPT !.success = TRUE,
                                                     !.file = call.file_path],
                         !.trace = call.trace \o ProcessDocumentSteps]
          /\ files' = process_document_files(files, call.file_path, doc,
                                             call.save_outputs,
                                             ProcessDocumentCleanup)
    /\ UNCHANGED <<storage_available, blobs, index_uploads, processed_files,
                   skipped_files, failed_files, batch, calls_made,
                   calls_returned>>
    /\ othersIdle

\* lines 302, 374-376: process_document returned success False; the
\* extractor may have written files before it failed, and the except branch
\* of process_document (lines 119-126) deletes nothing
ExtractFails ==
    /\ call.pc = "extract"
    /\ failed_files' = Append(failed_files, FailedEntry("extraction failed"))
    /\ \E temp_files \in {{}, {ElementFile(Stem(call.file_path))}} :
          /\ call' = [call EXCEPT
                         !.pc = "cleanup",
                         !.written = temp_files,
                         !.result = Failure("extraction failed"),
                         !.trace = call.trace \o ProcessDocumentFailedSteps]
          /\ files' = files \cup temp_files
    /\ UNCHANGED <<storage_available, blobs, index_uploads, processed_files,
                   skipped_files, batch, calls_made,
                   calls_returned>>
    /\ othersIdle

\* lines 306-309: result.get('visual_analysis', [])
Chunked(doc) ==
    chunk_document(doc.text_chunks, Get(doc, "visual_analysis", <<>>))

Chunk ==
    /\ call.pc = "chunk"
    /\ call' = [call EXCEPT
                   !.pc = "embed",
                   !.chunks = Chunked(call.doc),
                   !.trace = Called("chunk_document")]
    /\ UNCHANGED <<storage_available, blobs, index_uploads, processed_files,
                   skipped_files, failed_files, batch, calls_made,
                   calls_returned, files>>
    /\ othersIdle

\* lines 383-387: an exception inside the try body
TryBodyRaises ==
    /\ call.pc = "chunk"
    /\ failed_files' = Append(failed_files,
                              FailedEntry("Error processing file"))
    /\ call' = [call EXCEPT !.pc = "returned",
                            !.result = Failure("Error processing file"),
                            !.trace = Called("chunk_document")]
    /\ calls_returned' = calls_returned + 1
    /\ UNCHANGED <<storage_available, blobs, index_uploads, processed_files,
                   skipped_files, batch, calls_made,
                   files>>
    /\ othersIdle

\* lines 312-314: generate_embeddings returns the chunk list it was given,
\* each chunk with its vector; failed holds the batches that failed for good
Embed ==
    /\ call.pc = "embed"
    /\ \E dim \in ServiceDims, failed \in SUBSET BatchStarts(call.chunks) :
         LET embedded_chunks == generate_embeddings(call.chunks, dim, failed)
         IN  /\ embedded_chunks # <<>>
             /\ call' = [call EXCEPT
                            !.pc = "index",
                            !.chunks = embedded_chunks,
                            !.failed_batches = failed,
                            !.trace = Called("generate_embeddings")]
    /\ UNCHANGED <<storage_available, blobs, index_uploads, processed_files,
                   skipped_files, failed_files, batch, calls_made,
                   calls_returned, files>>
    /\ othersIdle

\* the branch taking an empty list on to the index
EmbedEmpty_Proceeds ==
    /\ call.pc = "embed"
    /\ call.chunks = <<>>
    /\ call' = [call EXCEPT !.pc = "index",
                            !.trace = Called("generate_embeddings")]
    /\ UNCHANGED <<storage_available, blobs, index_uploads, processed_files,
                   skipped_files, failed_files, batch, calls_made,
                   calls_returned, files>>
    /\ othersIdle
\* the branch without its entry in failed_files
EmbedEmpty_NoRecord ==
    /\ call.pc = "embed"
    /\ \E dim \in ServiceDims, failed \in SUBSET BatchStarts(call.chunks) :
         LET embedded_chunks == generate_embeddings(call.chunks, dim, failed)
         IN  /\ embedded_chunks = <<>>
             /\ call' = [call EXCEPT
                            !.pc = "cleanup",
                            !.chunks = embedded_chunks,
                            !.failed_batches = failed,
                            !.result =
                                Failure("Failed to generate embeddings"),
                            !.trace = Called("generate_embeddings")]
    /\ UNCHANGED <<storage_available, blobs, index_uploads, processed_files,
                   skipped_files, failed_files, batch, calls_made,
                   calls_returned, files>>
    /\ othersIdle
\* lines 312-314, 368-373: an empty list is falsy
EmbedEmpty ==
    /\ call.pc = "embed"
    /\ \E dim \in ServiceDims, failed \in SUBSET BatchStarts(call.chunks) :
         LET embedded_chunks == generate_embeddings(call.chunks, dim, failed)
         IN  /\ embedded_chunks = <<>>
             /\ call' = [call EXCEPT
                            !.pc = "cleanup",
                            !.chunks = embedded_chunks,
                            !.failed_batches = failed,
                            !.result =
                                Failure("Failed to generate embeddings"),
                            !.trace = Called("generate_embeddings")]
    /\ failed_files' = Append(failed_files,
                              FailedEntry("Failed to generate embeddings"))
    /\ UNCHANGED <<storage_available, blobs, index_uploads, processed_files,
                   skipped_files, batch, calls_made,
                   calls_returned, files>>
    /\ othersIdle

StoreAllowed_Always(upload_success) == TRUE
\* line 327
StoreAllowed(upload_success) == upload_success

\* lines 316-327, 362-367; upload_chunks returns False when the index
\* raises; call.docs is what it handed to the search client
Index ==
    /\ call.pc = "index"
    /\ \E upload_success \in BOOLEAN :
          /\ index_uploads' = index_uploads + (IF upload_success THEN 1 ELSE 0)
          /\ IF StoreAllowed(upload_success)
             THEN /\ call' = [call EXCEPT
                                 !.pc = "store",
                                 !.docs = IndexDocs(
                                     call.chunks,
                                     Metadata(call.file_path, call.file_hash)),
                                 !.upload_success = upload_success,
                                 !.trace = Called("upload_chunks")]
                  /\ UNCHANGED failed_files
             ELSE /\ failed_files' =
                        Append(failed_files,
                               FailedEntry("Failed to upload chunks"))
                  /\ call' = [call EXCEPT
                                 !.pc = "cleanup",
                                 !.docs = IndexDocs(
                                     call.chunks,
                                     Metadata(call.file_path, call.file_hash)),
                                 !.upload_success = upload_success,
                                 !.result = Failure("Failed to upload chunks"),
                                 !.trace = Called("upload_chunks")]
    /\ UNCHANGED <<storage_available, blobs, processed_files,
                   skipped_files, batch, calls_made,
                   calls_returned, files>>
    /\ othersIdle

\* StorageChecker.upload_to_storage, lines 228-249
upload_to_storage(raises) == storage_available /\ ~raises

\* lines 331-360
Store ==
    /\ call.pc = "store"
    /\ \E raises \in (IF storage_available THEN BOOLEAN ELSE {FALSE}) :
         LET blob_filename ==
                 BlobFilename(call.original_filename, call.file_path)
             blob_upload_success == upload_to_storage(raises)
             result == [call.result EXCEPT
                           !.file_hash = call.file_hash,
                           !.blob_storage_uploaded = blob_upload_success]
         IN  /\ blobs' = IF blob_upload_success
                         THEN blobs \cup {blob_filename} ELSE blobs
             /\ processed_files' = Append(processed_files, result)
             /\ call' = [call EXCEPT
                            !.pc = "cleanup", !.result = result,
                            !.blob_name =
                                UploadName(call.file_path, blob_filename),
                            !.trace = Called("upload_to_storage")]
    /\ UNCHANGED <<storage_available, index_uploads, skipped_files,
                   failed_files, batch, calls_made,
                   calls_returned, files>>
    /\ othersIdle

\* lines 378-381
Cleanup ==
    /\ call.pc = "cleanup"
    /\ call' = [call EXCEPT
                   !.pc = "returned",
                   !.trace = IF call.auto_cleanup
                             THEN Called("_cleanup_temp_files")
                             ELSE call.trace]
    /\ files' = IF call.auto_cleanup
                THEN _cleanup_temp_files(files, call.file_path)
                ELSE files
    /\ calls_returned' = calls_returned + 1
    /\ UNCHANGED <<storage_available, blobs, index_uploads, processed_files,
                   skipped_files, failed_files, batch, calls_made>>
    /\ othersIdle

\* the direct caller takes the result, or sees the exception
Return ==
    /\ call.pc \in {"returned", "raised"}
    /\ call.caller = "direct"
    /\ call' = IdleCall
    /\ UNCHANGED <<storage_available, blobs, index_uploads, processed_files,
                   skipped_files, failed_files, batch, calls_made,
                   calls_returned, files>>
    /\ othersIdle

(***************************************************************************)
(* CompleteIngestionPipeline.process_batch_with_storage_check.             *)
(***************************************************************************)
RECURSIVE SeqsUpTo(_, _)
SeqsUpTo(S, n) ==
    IF n = 0 THEN {<<>>}
    ELSE LET shorter == SeqsUpTo(S, n - 1)
         IN  shorter \cup {Append(s, x) : s \in shorter, x \in S}

StartBatch ==
    /\ call.pc = "idle" /\ batch.status = "idle"
    /\ \E file_paths \in SeqsUpTo(Paths, MaxBatch),
          force_reprocess \in BOOLEAN, save_outputs \in BOOLEAN,
          auto_cleanup \in BOOLEAN :
          /\ calls_made + Len(file_paths) <= MaxCalls
          /\ batch' = [IdleBatch EXCEPT !.status = "running", !.i = 1,
                                        !.file_paths = file_paths,
                                        !.force_reprocess = force_reprocess,
                                        !.save_outputs = save_outputs,
                                        !.auto_cleanup = auto_cleanup]
    /\ UNCHANGED <<storage_available, blobs, index_uploads, processed_files,
                   skipped_files, failed_files, call, calls_made,
                   calls_returned, files>>
    /\ othersIdle

\* a bool given as original_filename: True is truthy, False is not
BoolAsName(b) == IF b THEN "True" ELSE NoName

\* lines 444-450: the call passes its flags by position, so they land on
\* original_filename, force_reprocess and save_outputs
BatchCall ==
    /\ batch.status = "running" /\ call.pc = "idle"
    /\ batch.i <= Len(batch.file_paths)
    /\ call' = NewCall(batch.file_paths[batch.i],
                       BoolAsName(batch.force_reprocess),
                       batch.save_outputs, batch.auto_cleanup, TRUE, "batch")
    /\ calls_made' = calls_made + 1
    /\ UNCHANGED <<storage_available, blobs, index_uploads, processed_files,
                   skipped_files, failed_files, batch,
                   calls_returned, files>>
    /\ othersIdle

\* line 451
BatchCollect ==
    /\ batch.status = "running"
    /\ call.pc = "returned" /\ call.caller = "batch"
    /\ batch' = [batch EXCEPT !.results = Append(@, call.result),
                              !.i = @ + 1]
    /\ call' = IdleCall
    /\ UNCHANGED <<storage_available, blobs, index_uploads, processed_files,
                   skipped_files, failed_files, calls_made,
                   calls_returned, files>>
    /\ othersIdle

\* the loop has no try: an exception of the call leaves the batch method
BatchRaises ==
    /\ batch.status = "running"
    /\ call.pc = "raised" /\ call.caller = "batch"
    /\ batch' = [batch EXCEPT !.status = "raised"]
    /\ call' = IdleCall
    /\ UNCHANGED <<storage_available, blobs, index_uploads, processed_files,
                   skipped_files, failed_files, calls_made,
                   calls_returned, files>>
    /\ othersIdle

\* lines 453-454
BatchReturn ==
    /\ batch.status = "running" /\ call.pc = "idle"
    /\ batch.i > Len(batch.file_paths)
    /\ batch' = [batch EXCEPT !.status = "returned"]
    /\ UNCHANGED <<storage_available, blobs, index_uploads, processed_files,
                   skipped_files, failed_files, call, calls_made,
                   calls_returned, files>>
    /\ othersIdle

BatchDone ==
    /\ batch.status \in {"returned", "raised"}
    /\ batch' = IdleBatch
    /\ UNCHANGED <<storage_available, blobs, index_uploads, processed_files,
                   skipped_files, failed_files, call, calls_made,
                   calls_returned, files>>
    /\ othersIdle

(***************************************************************************)
(* Idle values of the other machines.                                      *)
(***************************************************************************)
EmbIdle == emb = [pc |-> "idle"]
CkIdle  == ck = [op |-> "idle"]
ScIdle  == sc = [op |-> "idle"]
DrIdle  == dr = [op |-> "idle"]
AugIdle == aug = [op |-> "idle"]
ApiIdle == api = [op |-> "idle"]

\* lines 254-266: the lists start empty; the store may hold the file
\* already, and the two directories hold what earlier runs left
PipeInit ==
    /\ storage_available \in BOOLEAN
    /\ blobs \in {{}, {PathName(PathT)}}
    /\ index_uploads = 0
    /\ processed_files = <<>> /\ skipped_files = <<>> /\ failed_files = <<>>
    /\ call = IdleCall /\ batch = IdleBatch
    /\ calls_made = 0 /\ calls_returned = 0
    /\ files = OtherFiles

Init ==
    PipeInit /\ EmbIdle /\ CkIdle /\ ScIdle /\ DrIdle /\ AugIdle /\ ApiIdle

Next ==
    \/ StartCall \/ FileNotFound \/ ExistsCheck \/ SkipBranch \/ Proceed
    \/ HashOk \/ HashRaises \/ ExtractOk \/ ExtractFails \/ Chunk
    \/ TryBodyRaises \/ Embed \/ EmbedEmpty \/ Index \/ Store \/ Cleanup
    \/ Return
    \/ StartBatch \/ BatchCall \/ BatchCollect \/ BatchRaises
    \/ BatchReturn \/ BatchDone

Spec == Init /\ [][Next]_vars

(***************************************************************************)
(* Properties of the orchestrator.                                         *)
(***************************************************************************)
Finished == call.pc \in {"returned", "raised"}

PriorProcessed ==
    {call.pre.processed[k] : k \in 1..Len(call.pre.processed)}

\* C1 (idempotency): once a file was processed and stored, a later run on
\* the same content with force_reprocess=false, whose existence check was
\* answered, returns status=skipped and makes no further index upload.
Idempotency ==
    ( /\ call.pc = "returned"
      /\ ~call.force_reprocess
      /\ call.probe = "answered"
      /\ \E r \in PriorProcessed :
            /\ r.success /\ r.blob_storage_uploaded
            /\ r.file_hash = Sha256(call.file_path) )
    => /\ call.result.status = "skipped"
       /\ index_uploads = call.pre.index_uploads

BatchIsolation ==
    /\ batch.status # "raised"
    /\ batch.status = "returned" =>
          /\ Len(batch.results) = Len(batch.file_paths)
          /\ \A k \in 1..Len(batch.results) :
                batch.results[k].file = batch.file_paths[k]

\* C8 (skip does no work): a run whose existence check said "exists", with
\* force_reprocess=false, calls no collaborator after the check, leaves the
\* store, the index and the processed and failed lists as they were, and
\* ends skipped with the file appended to the skipped list.
SkipDoesNoWork ==
    (call.file_exists /\ ~call.force_reprocess)
    => /\ call.pc \in {"decide", "returned"}
       /\ call.trace = <<"file_exists_in_storage">>
       /\ blobs = call.pre.blobs
       /\ index_uploads = call.pre.index_uploads
       /\ processed_files = call.pre.processed
       /\ failed_files = call.pre.failed
       /\ call.pc = "decide" => skipped_files = call.pre.skipped
       /\ call.pc = "returned" =>
             /\ call.result.status = "skipped" /\ call.result.success
             /\ skipped_files = Append(call.pre.skipped, call.file_path)

SkipWitness ==
    /\ call.pc = "returned" /\ call.file_exists /\ ~call.force_reprocess
    /\ call.result.status = "skipped"

\* C9 (store only after index): upload_to_storage is called only after the
\* upload_chunks of the same run returned success, and a run that failed in
\* extraction, embedding or index upload writes nothing to the store.
StoreOnlyAfterIndex ==
    /\ \A k \in 1..Len(call.trace) :
          call.trace[k] = "upload_to_storage" =>
             /\ call.upload_success
             /\ \E j \in 1..(k - 1) : call.trace[j] = "upload_chunks"
    /\ (call.pc # "idle" /\ blobs # call.pre.blobs) => call.upload_success
    /\ call.result.error # "none" =>
          /\ ~InTrace("upload_to_storage")
          /\ call.pc # "idle" => blobs = call.pre.blobs

StoreWitness ==
    /\ InTrace("upload_to_storage") /\ blobs # call.pre.blobs
    /\ call.upload_success

\* C10 (dedup check fails open): when storage is not configured or the
\* store call raises, file_exists_in_storage answers "does not exist", the
\* run is never skipped and takes the processing path: get_file_hash is
\* called next, and a file that can be read is extracted.
UnansweredCheck == call.probe \in {"unavailable", "error"}

DedupFailsOpen ==
    UnansweredCheck
    => /\ ~call.file_exists
       /\ call.result.status # "skipped"
       /\ skipped_files = call.pre.skipped
       /\ call.pc \in {"decide", "hash"} \/ InTrace("get_file_hash")
       /\ (call.pc = "returned" /\ CanOpen(call.file_path))
             => InTrace("process_document")

\* the store holds the blob, the call raised, and the file was extracted
DedupFailsOpenWitness ==
    /\ call.probe = "error"
    /\ PathName(call.file_path) \in call.pre.blobs
    /\ ~call.force_reprocess
    /\ call.pc = "returned" /\ InTrace("process_document")

(***************************************************************************)
(* EmbeddingService._generate_embeddings_batch.  emb.texts is the list of  *)
(* chunk texts (text k is the number k), emb.dim the vector length of the  *)
(* deployed embedding model; a vector is [dim, zero].                      *)
(***************************************************************************)
MaxTexts == 4                \* longest list of chunk texts

PipeIdle ==
    /\ storage_available = FALSE /\ blobs = {} /\ index_uploads = 0
    /\ processed_files = <<>> /\ skipped_files = <<>> /\ failed_files = <<>>
    /\ call = IdleCall /\ batch = IdleBatch /\ calls_made = 0
    /\ calls_returned = 0 /\ files = {}

\* entries of emb.log, the calls and the waits in the order they happen
CallEvent(start, attempt, ok) ==
    [ev |-> "call", batch |-> start, attempt |-> attempt, ok |-> ok,
     delay |-> 0]
SleepEvent(start, attempt, delay) ==
    [ev |-> "sleep", batch |-> start, attempt |-> attempt, ok |-> FALSE,
     delay |-> delay]

Backoff_Constant(attempt) == retry_delay
\* line 103
Backoff(attempt) == retry_delay * Pow2(attempt)

EmbInit ==
    \E n \in 0..MaxTexts, batch_size \in BatchSizes, dim \in ServiceDims :
       emb = [pc |-> "batch", texts |-> [k \in 1..n |-> k],
              batch_size |-> batch_size, dim |-> dim, i |-> 0,
              attempt |-> 0, all_embeddings |-> <<>>, calls |-> <<>>,
              sleeps |-> <<>>, log |-> <<>>]

EmbBatchTexts == BatchTexts(emb.texts, emb.i, emb.batch_size)

\* lines 87-97: the call returns, the batch is done
AttemptOk ==
    /\ emb.pc = "batch" /\ emb.i < Len(emb.texts)
    /\ emb' = [emb EXCEPT
                  !.all_embeddings =
                      @ \o ServiceResponse(EmbBatchTexts, emb.dim),
                  !.calls = Append(@, [batch |-> emb.i, ok |-> TRUE]),
                  !.log = Append(@, CallEvent(emb.i, emb.attempt, TRUE)),
                  !.i = @ + emb.batch_size, !.attempt = 0]
    /\ UNCHANGED <<pipevars, ck, sc, dr, aug, api>>

\* lines 99-103: the call raises and attempts are left
AttemptFailsRetry ==
    /\ emb.pc = "batch" /\ emb.i < Len(emb.texts)
    /\ emb.attempt < max_retries - 1
    /\ emb' = [emb EXCEPT
                  !.calls = Append(@, [batch |-> emb.i, ok |-> FALSE]),
                  !.sleeps = Append(@, Backoff(emb.attempt)),
                  !.log = @ \o <<CallEvent(emb.i, emb.attempt, FALSE),
                                 SleepEvent(emb.i, emb.attempt,
                                            Backoff(emb.attempt))>>,
                  !.attempt = @ + 1]
    /\ UNCHANGED <<pipevars, ck, sc, dr, aug, api>>

\* lines 99-107: the last attempt raises
AttemptFailsLast ==
    /\ emb.pc = "batch" /\ emb.i < Len(emb.texts)
    /\ emb.attempt = max_retries - 1
    /\ emb' = [emb EXCEPT
                  !.all_embeddings = @ \o ZeroVectors(Len(EmbBatchTexts)),
                  !.calls = Append(@, [batch |-> emb.i, ok |-> FALSE]),
                  !.log = Append(@, CallEvent(emb.i, emb.attempt, FALSE)),
                  !.i = @ + emb.batch_size, !.attempt = 0]
    /\ UNCHANGED <<pipevars, ck, sc, dr, aug, api>>

\* line 109
EmbReturn ==
    /\ emb.pc = "batch" /\ emb.i >= Len(emb.texts)
    /\ emb' = [emb EXCEPT !.pc = "returned"]
    /\ UNCHANGED <<pipevars, ck, sc, dr, aug, api>>

InitEmbed ==
    PipeIdle /\ EmbInit /\ CkIdle /\ ScIdle /\ DrIdle /\ AugIdle /\ ApiIdle
NextEmbed == AttemptOk \/ AttemptFailsRetry \/ AttemptFailsLast \/ EmbReturn
SpecEmbed == InitEmbed /\ [][NextEmbed]_vars

EveryCallFailed == \A k \in 1..Len(emb.calls) : ~emb.calls[k].ok

\* C3 (cardinality preservation): for N texts, any batch size and any
\* pattern of service successes and failures the batcher returns exactly N
\* vectors (after each batch it holds one vector per text handled so far),
\* and when every call failed all of them are zero vectors.
CardinalityPreserved ==
    /\ emb.pc = "batch" /\ emb.attempt = 0 =>
          Len(emb.all_embeddings) = Min(emb.i, Len(emb.texts))
    /\ emb.pc = "returned" =>
          /\ Len(emb.all_embeddings) = Len(emb.texts)
          /\ EveryCallFailed =>
                \A k \in 1..Len(emb.all_embeddings) :
                   emb.all_embeddings[k].zero

\* several batches, the last one short, every call failed
CardinalityWitness ==
    /\ emb.pc = "returned" /\ EveryCallFailed
    /\ Len(emb.texts) = 3 /\ emb.batch_size = 2
    /\ Len(emb.all_embeddings) = 3

(***************************************************************************)
(* ContentChunker.chunk_text and merge_small_chunks.  A chunk is a dict:   *)
(* a function on its keys.  A content is [text, len]: the pieces it is     *)
(* made of and its length in characters.                                   *)
(***************************************************************************)
MaxPieces  == 3              \* pieces the splitter returns for one text
MaxVisuals == 2              \* visual analyses of one document

min_chunk_size == 200

Content(name, len) == [text |-> <<name>>, len |-> len]
\* a + "\n\n" + b
JoinBlank(a, b) ==
    [text |-> a.text \o <<"\n\n">> \o b.text, len |-> a.len + 2 + b.len]

\* what text_splitter.split_documents can return: short and long pieces
SplitPieces ==
    {[content |-> Content("s", 60), start |-> 0, page |-> 0],
     [content |-> Content("l", 250), start |-> 60, page |-> 1]}

\* lines 76-86
ChunkDict(i, piece) ==
    [id |-> <<"chunk", i + 1>>, content |-> piece.content,
     chunk_index |-> i + 1, chunk_size |-> piece.content.len,
     start_char |-> piece.start,
     end_char |-> piece.start + piece.content.len]

\* lines 72-89, given the splitter's pieces
chunk_text(pieces) == [k \in 1..Len(pieces) |-> ChunkDict(k - 1, pieces[k])]

\* lines 239-248
MergeInto(current_chunk, next_chunk) ==
    LET joined == [current_chunk EXCEPT
                      !.content = JoinBlank(@, next_chunk.content),
                      !.end_char = next_chunk.end_char]
        withctx ==
            IF HasKey(joined, "image_context")
               /\ HasKey(next_chunk, "image_context")
            THEN [joined EXCEPT
                     !.image_context = @ \o next_chunk.image_context]
            ELSE IF HasKey(next_chunk, "image_context")
            THEN Put(joined, "image_context", next_chunk.image_context)
            ELSE joined
    IN  Put(withctx, "has_images",
            Get(current_chunk, "has_images", FALSE)
               \/ Get(next_chunk, "has_images", FALSE))

\* lines 236-255
RECURSIVE MergeLoop(_, _, _, _)
MergeLoop(merged_chunks, current_chunk, rest, min_size) ==
    IF rest = <<>> THEN Append(merged_chunks, current_chunk)
    ELSE IF current_chunk.content.len < min_size
    THEN MergeLoop(merged_chunks, MergeInto(current_chunk, Head(rest)),
                   Tail(rest), min_size)
    ELSE MergeLoop(Append(merged_chunks, current_chunk), Head(rest),
                   Tail(rest), min_size)

\* lines 257-260
Renumber(merged_chunks) ==
    [k \in 1..Len(merged_chunks) |->
        [merged_chunks[k] EXCEPT !.id = <<"chunk", k>>, !.chunk_index = k]]

\* lines 218-263
merge_small_chunks(chunks, min_size) ==
    IF chunks = <<>> THEN chunks
    ELSE Renumber(MergeLoop(<<>>, Head(chunks), Tail(chunks), min_size))

AnalysisNames == <<"d1", "d2", "d3", "d4">>
VisualAnalyses(n) == [k \in 1..n |-> Analysis(AnalysisNames[k], k)]
AsTextChunk(piece) == Piece(piece.content.text[1], piece.page)

CkInit ==
    \E pieces \in SeqsUpTo(SplitPieces, MaxPieces), nv \in 0..MaxVisuals :
       ck = [op |-> "input", pieces |-> pieces,
             visual_analysis |-> VisualAnalyses(nv), inp |-> <<>>,
             out |-> <<>>]

DoChunkDocument ==
    /\ ck.op = "input"
    /\ ck' = [ck EXCEPT
                 !.op = "chunk_document",
                 !.out = chunk_document(
                             [k \in 1..Len(ck.pieces) |->
                                 AsTextChunk(ck.pieces[k])],
                             ck.visual_analysis)]
    /\ UNCHANGED <<pipevars, emb, sc, dr, aug, api>>

DoChunkText ==
    /\ ck.op = "input"
    /\ ck' = [ck EXCEPT !.op = "chunk_text", !.out = chunk_text(ck.pieces)]
    /\ UNCHANGED <<pipevars, emb, sc, dr, aug, api>>

\* an entry of the list _get_chunk_image_context returns for one chunk
ImageEntry(image_id, num) ==
    [image_id |-> image_id, relevance_score |-> [num |-> num, den |-> 4]]

\* lines 173-198 for a document with the images i1 and i2: one entry for
\* every analysis the chunk mentions, the highest score first; the score of
\* an image depends on the chunk
ImageContexts ==
    {<<>>, <<ImageEntry("i1", 1)>>, <<ImageEntry("i1", 2)>>,
     <<ImageEntry("i2", 1)>>, <<ImageEntry("i2", 1), ImageEntry("i1", 1)>>}

\* lines 116-120
WithImageContext(chunk, image_context) ==
    Put(Put(chunk, "image_context", image_context),
        "has_images", image_context # <<>>)

\* chunk_with_image_context, lines 95-126: chunk_text, then every chunk
\* gets its image context
DoChunkWithImageContext ==
    /\ ck.op = "input"
    /\ \E contexts \in [1..Len(ck.pieces) -> ImageContexts] :
          ck' = [ck EXCEPT
                    !.op = "chunk_with_image_context",
                    !.out = [k \in 1..Len(ck.pieces) |->
                                WithImageContext(chunk_text(ck.pieces)[k],
                                                 contexts[k])]]
    /\ UNCHANGED <<pipevars, emb, sc, dr, aug, api>>

\* merge_small_chunks on the chunks of either chunker; ck.inp keeps them
DoMergeSmallChunks ==
    /\ ck.op \in {"chunk_text", "chunk_with_image_context"}
    /\ ck' = [ck EXCEPT !.op = "merge_small_chunks",
                        !.inp = ck.out,
                        !.out = merge_small_chunks(ck.out, min_chunk_size)]
    /\ UNCHANGED <<pipevars, emb, sc, dr, aug, api>>

InitChunk ==
    PipeIdle /\ EmbIdle /\ CkInit /\ ScIdle /\ DrIdle /\ AugIdle /\ ApiIdle
NextChunk ==
    \/ DoChunkDocument \/ DoChunkText \/ DoChunkWithImageContext
    \/ DoMergeSmallChunks
SpecChunk == InitChunk /\ [][NextChunk]_vars

ChunkIndexes == {ck.out[k].chunk_index : k \in 1..Len(ck.out)}

\* C4 (chunk contiguity): the chunk_index values of the sequence produced
\* by chunk_document, by chunk_text and by merge_small_chunks are exactly
\* 0..K-1, K the number of chunks, with no gap and no duplicate.
ChunkContiguity ==
    ck.op \in {"chunk_document", "chunk_text", "merge_small_chunks"}
    => /\ ChunkIndexes = 0..(Len(ck.out) - 1)
       /\ \A j, k \in 1..Len(ck.out) :
             ck.out[j].chunk_index = ck.out[k].chunk_index => j = k

(***************************************************************************)
(* ContentChunker._calculate_relevance_score.  A text is a sequence of     *)
(* characters; a score is the fraction num/den.                            *)
(***************************************************************************)
MaxTextLen == 3              \* longest chunk text and analysis text

Alphabet == {"a", "A", "b", " "}

LowerChar(c) == IF c = "A" THEN "a" ELSE c
\* str.lower
Lower(text) == [k \in 1..Len(text) |-> LowerChar(text[k])]

\* str.split(): the maximal runs of non-blank characters
RECURSIVE SplitFrom(_, _, _)
SplitFrom(text, word, words) ==
    LET closed == IF word = <<>> THEN words ELSE Append(words, word)
    IN  IF text = <<>> THEN closed
        ELSE IF Head(text) = " " THEN SplitFrom(Tail(text), <<>>, closed)
        ELSE SplitFrom(Tail(text), Append(word, Head(text)), words)

Split(text) == SplitFrom(text, <<>>, <<>>)

\* set(text.lower().split())
WordSet(text) ==
    LET words == Split(Lower(text)) IN {words[k] : k \in 1..Len(words)}

Fraction(num, den) == [num |-> num, den |-> den]

Jaccard_SumOfSizes(chunk_words, analysis_words) ==
    Fraction(Cardinality(chunk_words \cap analysis_words),
             Cardinality(chunk_words) + Cardinality(analysis_words))
\* lines 210-213
Jaccard(chunk_words, analysis_words) ==
    LET overlap == Cardinality(chunk_words \cap analysis_words)
        total   == Cardinality(chunk_words \cup analysis_words)
    IN  IF total > 0 THEN Fraction(overlap, total) ELSE Fraction(0, 1)

\* lines 200-216
_calculate_relevance_score(chunk_content, image_analysis) ==
    LET chunk_words    == WordSet(chunk_content)
        analysis_words == WordSet(image_analysis)
    IN  IF chunk_words = {} \/ analysis_words = {} THEN Fraction(0, 1)
        ELSE Jaccard(chunk_words, analysis_words)

ScInit ==
    \E chunk_content \in SeqsUpTo(Alphabet, MaxTextLen),
       image_analysis \in SeqsUpTo(Alphabet, MaxTextLen) :
       sc = [op |-> "input", chunk_content |-> chunk_content,
             image_analysis |-> image_analysis, score |-> Fraction(0, 1)]

CalculateRelevanceScore ==
    /\ sc.op = "input"
    /\ sc' = [sc EXCEPT
                 !.op = "scored",
                 !.score = _calculate_relevance_score(sc.chunk_content,
                                                      sc.image_analysis)]
    /\ UNCHANGED <<pipevars, emb, ck, dr, aug, api>>

InitScore ==
    PipeIdle /\ EmbIdle /\ CkIdle /\ ScInit /\ DrIdle /\ AugIdle /\ ApiIdle
NextScore == CalculateRelevanceScore
SpecScore == InitScore /\ [][NextScore]_vars

\* C5 (relevance bounds): the score is in [0,1]; it is 0 when the two
\* lower-cased word sets are disjoint or one is empty, and 1 when they are
\* the same non-empty set.
RelevanceBounds ==
    sc.op = "scored"
    => LET cw == WordSet(sc.chunk_content)
           aw == WordSet(sc.image_analysis)
       IN  /\ sc.score.den > 0
           /\ 0 <= sc.score.num /\ sc.score.num <= sc.score.den
           /\ cw \cap aw = {} => sc.score.num = 0
           /\ (cw = aw /\ cw # {}) => sc.score.num = sc.score.den

\* two different texts with the same two lower-cased words, score 1
RelevanceWitness ==
    /\ sc.op = "scored"
    /\ sc.chunk_content # sc.image_analysis
    /\ WordSet(sc.chunk_content) = WordSet(sc.image_analysis)
    /\ Cardinality(WordSet(sc.chunk_content)) = 2
    /\ sc.score.num = sc.score.den

(***************************************************************************)
(* PDFExtractor._extract_drawing_elements and the grouping it uses.  A     *)
(* drawing is a dict; its "rect" is a fitz.Rect <<x0, y0, x1, y1>>;        *)
(* without the key, get() gives the list [0, 0, 0, 0].                     *)
(***************************************************************************)
MaxDrawings == 3             \* drawing primitives of one page

proximity_threshold  == 50
MinBBoxSide          == 20
PDF_MIN_DRAWING_SIZE == 100

RectOf(x0, y0, x1, y1) == [kind |-> "Rect", v |-> <<x0, y0, x1, y1>>]
DefaultRect == [kind |-> "list", v |-> <<0, 0, 0, 0>>]

\* a primitive whose dict has no 'rect' key
NoRectDrawing == [type |-> "s"]

\* primitives of a page: two close mid-sized boxes, a box close to the
\* second of them only, a thin rule far away, a large box, a degenerate
\* primitive whose rect is all zeros and a primitive without a rect
Drawings ==
    {[rect |-> RectOf(0, 0, 30, 30)],
     [rect |-> RectOf(10, 10, 40, 40)],
     [rect |-> RectOf(40, 40, 80, 80)],
     [rect |-> RectOf(500, 500, 505, 700)],
     [rect |-> RectOf(0, 200, 150, 350)],
     [rect |-> RectOf(0, 0, 0, 0)],
     NoRectDrawing}

\* drawing.get('rect', [0, 0, 0, 0])
GetRect(drawing) == Get(drawing, "rect", DefaultRect)

\* bool(rect): a fitz.Rect of zeros is false, a list of four is true
Truthy(rect) == rect.kind = "list" \/ rect.v # <<0, 0, 0, 0>>

\* lines 271-283, on twice the centers' coordinates
_are_bboxes_close(bbox1, bbox2, threshold) ==
    IF ~Truthy(bbox1) \/ ~Truthy(bbox2) THEN FALSE
    ELSE LET dx == (bbox1.v[1] + bbox1.v[3]) - (bbox2.v[1] + bbox2.v[3])
             dy == (bbox1.v[2] + bbox1.v[4]) - (bbox2.v[2] + bbox2.v[4])
         IN  dx * dx + dy * dy < 4 * threshold * threshold

\* a grouping that also takes what is close to a member of the group
RECURSIVE GroupOf_Transitive(_, _, _, _, _)
GroupOf_Transitive(drawings, i, j, group, used) ==
    IF j > Len(drawings) THEN [group |-> group, used |-> used]
    ELSE IF j \in used
    THEN GroupOf_Transitive(drawings, i, j + 1, group, used)
    ELSE IF \E k \in 1..Len(group) :
               _are_bboxes_close(GetRect(drawings[group[k]]),
                                 GetRect(drawings[j]), proximity_threshold)
    THEN GroupOf_Transitive(drawings, i, j + 1, Append(group, j),
                            used \cup {j})
    ELSE GroupOf_Transitive(drawings, i, j + 1, group, used)
\* lines 256-265: the inner loop of seed i, from index j on
RECURSIVE GroupOf(_, _, _, _, _)
GroupOf(drawings, i, j, group, used) ==
    IF j > Len(drawings) THEN [group |-> group, used |-> used]
    ELSE IF j \in used THEN GroupOf(drawings, i, j + 1, group, used)
    ELSE IF _are_bboxes_close(GetRect(drawings[i]), GetRect(drawings[j]),
                              proximity_threshold)
    THEN GroupOf(drawings, i, j + 1, Append(group, j), used \cup {j})
    ELSE GroupOf(drawings, i, j + 1, group, used)

\* lines 246-267: the outer loop, from index i on
RECURSIVE GroupsFrom(_, _, _, _)
GroupsFrom(drawings, i, groups, used) ==
    IF i > Len(drawings) THEN groups
    ELSE IF i \in used THEN GroupsFrom(drawings, i + 1, groups, used)
    ELSE LET g == GroupOf(drawings, i, 1, <<i>>, used \cup {i})
         IN  GroupsFrom(drawings, i + 1, Append(groups, g.group), g.used)

\* lines 238-269; a group is the sequence of the indexes of its drawings
_group_drawings_by_proximity(drawings) ==
    IF drawings = <<>> THEN <<>> ELSE GroupsFrom(drawings, 1, <<>>, {})

EmptyBBox == [empty |-> TRUE, x0 |-> 0, y0 |-> 0, x1 |-> 0, y1 |-> 0]

\* lines 293-299
RECURSIVE UnionFrom(_, _, _, _)
UnionFrom(drawings, group, k, bbox) ==
    IF k > Len(group) THEN bbox
    ELSE LET rect == GetRect(drawings[group[k]])
             next ==
                 IF ~Truthy(rect) THEN bbox
                 ELSE IF bbox.empty
                 THEN [empty |-> FALSE, x0 |-> rect.v[1], y0 |-> rect.v[2],
                       x1 |-> rect.v[3], y1 |-> rect.v[4]]
                 ELSE [empty |-> FALSE,
                       x0 |-> Min(bbox.x0, rect.v[1]),
                       y0 |-> Min(bbox.y0, rect.v[2]),
                       x1 |-> Max(bbox.x1, rect.v[3]),
                       y1 |-> Max(bbox.y1, rect.v[4])]
         IN  UnionFrom(drawings, group, k + 1, next)

\* lines 285-301; without any rect the box is (inf, inf, -inf, -inf)
_get_drawings_bbox(drawings, group) == UnionFrom(drawings, group, 1, EmptyBBox)

\* fitz.Rect.width, fitz.Rect.height
Width(bbox)  == IF bbox.empty THEN 0 ELSE Max(0, bbox.x1 - bbox.x0)
Height(bbox) == IF bbox.empty THEN 0 ELSE Max(0, bbox.y1 - bbox.y0)

\* line 183
TooSmall(bbox) == Width(bbox) < MinBBoxSide \/ Height(bbox) < MinBBoxSide

DrInit ==
    \E drawings_list \in SeqsUpTo(Drawings, MaxDrawings) :
       dr = [op |-> "input", drawings_list |-> drawings_list,
             visual_elements |-> <<>>, elem_index |-> 0, elements |-> <<>>]

\* lines 169-175
GroupDrawings ==
    /\ dr.op = "input"
    /\ dr' = [dr EXCEPT
                 !.op = IF dr.drawings_list = <<>> THEN "returned"
                        ELSE "loop",
                 !.visual_elements =
                     _group_drawings_by_proximity(dr.drawings_list)]
    /\ UNCHANGED <<pipevars, emb, ck, sc, aug, api>>

DrGroup == dr.visual_elements[dr.elem_index + 1]
DrBBox  == _get_drawings_bbox(dr.drawings_list, DrGroup)
DrInLoop == dr.op = "loop" /\ dr.elem_index < Len(dr.visual_elements)

\* lines 180-184
ElementTooSmall ==
    /\ DrInLoop /\ TooSmall(DrBBox)
    /\ dr' = [dr EXCEPT !.elem_index = @ + 1]
    /\ UNCHANGED <<pipevars, emb, ck, sc, aug, api>>

\* lines 186-228
ElementExtracted ==
    /\ DrInLoop /\ ~TooSmall(DrBBox)
    /\ dr' = [dr EXCEPT
                 !.elem_index = @ + 1,
                 !.elements =
                     Append(@, [image_index |-> dr.elem_index + 1,
                                bbox |-> DrBBox,
                                drawing_count |-> Len(DrGroup)])]
    /\ UNCHANGED <<pipevars, emb, ck, sc, aug, api>>

\* lines 205-207, 232-234: under 100 bytes, or rendering raised
ElementSkipped ==
    /\ DrInLoop /\ ~TooSmall(DrBBox)
    /\ dr' = [dr EXCEPT !.elem_index = @ + 1]
    /\ UNCHANGED <<pipevars, emb, ck, sc, aug, api>>

\* line 236
DrawingsReturn ==
    /\ dr.op = "loop" /\ dr.elem_index >= Len(dr.visual_elements)
    /\ dr' = [dr EXCEPT !.op = "returned"]
    /\ UNCHANGED <<pipevars, emb, ck, sc, aug, api>>

InitDraw ==
    PipeIdle /\ EmbIdle /\ CkIdle /\ ScIdle /\ DrInit /\ AugIdle /\ ApiIdle
NextDraw ==
    \/ GroupDrawings \/ ElementTooSmall \/ ElementExtracted
    \/ ElementSkipped \/ DrawingsReturn
SpecDraw == InitDraw /\ [][NextDraw]_vars

\* C6 (noise filtering): no group whose union bounding box is narrower or
\* lower than the minimum drawing size the repository configures
\* (PDF_MIN_DRAWING_SIZE) is among the elements returned.
NoiseFiltered ==
    \A k \in 1..Len(dr.elements) :
       /\ Width(dr.elements[k].bbox) >= PDF_MIN_DRAWING_SIZE
       /\ Height(dr.elements[k].bbox) >= PDF_MIN_DRAWING_SIZE

(***************************************************************************)
(* What the orchestrator sends to the index.                               *)
(***************************************************************************)
\* the description text is in the chunk: a visual chunk wraps it in
\* "[Image Summary: ...]", a text chunk is a piece of result['text_content']
Describes(chunk, description) ==
    IF chunk.chunk_type = "visual" THEN chunk.content[2] = description
    ELSE chunk.content = description

SentToIndex == call.pc # "idle" /\ InTrace("upload_chunks")

\* C11 (indexed chunks carry visual descriptions): when the chunks of a
\* document are sent to the index, every successful visual analysis of the
\* document has its description text in one of those chunks.
VisualDescriptionsIndexed ==
    SentToIndex =>
       \A k \in 1..Len(call.doc.image_analyses) :
          call.doc.image_analyses[k].success =>
             \E c \in 1..Len(call.chunks) :
                Describes(call.chunks[c], call.doc.image_analyses[k].analysis)

\* the fields of an index record
IndexFields ==
    {"id", "content", "embedding", "filename", "chunk_index", "page_number",
     "chunk_type", "tags", "upload_date"}

\* C12 (index records carry the embedding): every record upload_chunks
\* sends to the index for a chunk has all the fields of an index record,
\* and its embedding is the vector of that chunk.
IndexRecordsCarryEmbedding ==
    SentToIndex =>
       /\ Len(call.docs) = Len(call.chunks)
       /\ \A k \in 1..Len(call.docs) :
             /\ IndexFields \subseteq DOMAIN call.docs[k]
             /\ call.docs[k].embedding = call.chunks[k].embedding

\* every call to the embedding service of this run failed
EveryEmbeddingCallFailed ==
    /\ call.pc # "idle" /\ InTrace("generate_embeddings")
    /\ Chunked(call.doc) # <<>>
    /\ call.failed_batches = BatchStarts(Chunked(call.doc))

\* C13 (embedding failure degrades): for a document with at least one
\* chunk, when every embedding-service call fails the run keeps one chunk
\* with a zero vector per chunk, is not failed for its embeddings and goes
\* on to the index upload.
EmbeddingFailureDegrades ==
    EveryEmbeddingCallFailed =>
       /\ Len(call.chunks) = Len(Chunked(call.doc))
       /\ \A k \in 1..Len(call.chunks) :
             /\ HasKey(call.chunks[k], "embedding")
             /\ call.chunks[k].embedding.zero
       /\ call.result.error # "Failed to generate embeddings"
       /\ call.pc \in {"cleanup", "returned"} => InTrace("upload_chunks")

EmbeddingFailureWitness ==
    /\ EveryEmbeddingCallFailed
    /\ call.pc = "returned" /\ call.result.success
    /\ Len(call.chunks) = 2 /\ call.upload_success

(***************************************************************************)
(* RAG: AugmentationComponent.augment and _build_context.  A retrieved     *)
(* chunk is [score, content_len]: its score in thousandths and the length  *)
(* of its stripped content; text chunks of a.pdf, page 1, no tags.         *)
(***************************************************************************)
MaxRetrieved == 3            \* retrieved chunks of one query

DEFAULT_CONTEXT_LENGTH == 4000
\* len("[Source: a.pdf, Page: 1, Score: 0.900]")
SourceHeaderLen == 38
\* len("\n\n")
SeparatorLen == 2

RetrievedChunks ==
    {[score |-> 900, content_len |-> 11],
     [score |-> 800, content_len |-> 61],
     [score |-> 800, content_len |-> 1961]}

\* max_length as given by the caller
NotGiven       == [given |-> FALSE, v |-> 0]
GivenLength(n) == [given |-> TRUE, v |-> n]
MaxLengths     == {NotGiven} \cup {GivenLength(n) : n \in {60, 100, 150}}

\* line 65: max_length or DEFAULT_CONTEXT_LENGTH (None and 0 are falsy)
EffectiveMaxLength(max_length) ==
    IF max_length.given /\ max_length.v # 0 THEN max_length.v
    ELSE DEFAULT_CONTEXT_LENGTH

\* lines 121-145: f"{source_header}\n{cleaned_content}"
FormattedLen(chunk) == SourceHeaderLen + 1 + chunk.content_len

\* line 70: sorted(..., reverse=True) keeps equal scores in their order
RECURSIVE InsertByScore(_, _)
InsertByScore(sorted, chunk) ==
    IF sorted = <<>> THEN <<chunk>>
    ELSE IF Head(sorted).score >= chunk.score
    THEN <<Head(sorted)>> \o InsertByScore(Tail(sorted), chunk)
    ELSE <<chunk>> \o sorted

RECURSIVE SortedByScore(_)
SortedByScore(chunks) ==
    IF chunks = <<>> THEN <<>>
    ELSE InsertByScore(SortedByScore(SubSeq(chunks, 1, Len(chunks) - 1)),
                       chunks[Len(chunks)])

RECURSIVE SumLen(_)
SumLen(parts) == IF parts = <<>> THEN 0 ELSE Head(parts) + SumLen(Tail(parts))

\* line 93: len("\n\n".join(context_parts))
JoinedLen(context_parts) ==
    IF context_parts = <<>> THEN 0
    ELSE SumLen(context_parts) + SeparatorLen * (Len(context_parts) - 1)

AugInit ==
    \E retrieved_chunks \in SeqsUpTo(RetrievedChunks, MaxRetrieved),
       max_length \in MaxLengths :
       aug = [op |-> "called", chunks |-> retrieved_chunks,
              given |-> max_length, max_length |-> 0, sorted_chunks |-> <<>>,
              i |-> 0, context_parts |-> <<>>, current_length |-> 0,
              context_len |-> 0]

\* lines 37-39
AugmentNothing ==
    /\ aug.op = "called" /\ aug.chunks = <<>>
    /\ aug' = [aug EXCEPT !.op = "returned", !.context_len = 0]
    /\ UNCHANGED <<pipevars, emb, ck, sc, dr, api>>

\* lines 42, 65-70
BuildContext ==
    /\ aug.op = "called" /\ aug.chunks # <<>>
    /\ aug' = [aug EXCEPT !.op = "loop",
                          !.max_length = EffectiveMaxLength(aug.given),
                          !.sorted_chunks = SortedByScore(aug.chunks)]
    /\ UNCHANGED <<pipevars, emb, ck, sc, dr, api>>

AugInLoop == aug.op = "loop" /\ aug.i < Len(aug.sorted_chunks)
AugPartLen == FormattedLen(aug.sorted_chunks[aug.i + 1])

\* lines 85-87
LimitReached ==
    /\ AugInLoop
    /\ aug.current_length + AugPartLen > aug.max_length
    /\ aug' = [aug EXCEPT !.op = "join"]
    /\ UNCHANGED <<pipevars, emb, ck, sc, dr, api>>

\* lines 89-90
AppendPart ==
    /\ AugInLoop
    /\ ~(aug.current_length + AugPartLen > aug.max_length)
    /\ aug' = [aug EXCEPT !.context_parts = Append(@, AugPartLen),
                          !.current_length = @ + AugPartLen,
                          !.i = @ + 1]
    /\ UNCHANGED <<pipevars, emb, ck, sc, dr, api>>

\* lines 93-96, 47
JoinParts ==
    /\ \/ aug.op = "join"
       \/ aug.op = "loop" /\ aug.i >= Len(aug.sorted_chunks)
    /\ aug' = [aug EXCEPT !.op = "returned",
                          !.context_len = JoinedLen(aug.context_parts)]
    /\ UNCHANGED <<pipevars, emb, ck, sc, dr, api>>

InitAugment ==
    PipeIdle /\ EmbIdle /\ CkIdle /\ ScIdle /\ DrIdle /\ AugInit /\ ApiIdle
NextAugment ==
    \/ AugmentNothing \/ BuildContext \/ LimitReached \/ AppendPart
    \/ JoinParts
SpecAugment == InitAugment /\ [][NextAugment]_vars

\* the limit the caller asked for
RequestedLength ==
    IF aug.given.given THEN aug.given.v ELSE DEFAULT_CONTEXT_LENGTH

\* C14 (bounded context window): the context augment returns is at most
\* max_length characters long, DEFAULT_CONTEXT_LENGTH when no max_length
\* was given.
ContextBounded ==
    aug.op = "returned" => aug.context_len <= RequestedLength

(***************************************************************************)
(* Properties of the embedding batcher's retry loop.                       *)
(***************************************************************************)
\* the calls made for the batch that starts at offset b, in order
CallsOf(b) ==
    SelectSeq(emb.log, LAMBDA e : e.ev = "call" /\ e.batch = b)

\* the batches the loop has left behind
BatchesDone ==
    {b \in 0..Len(emb.texts) :
        /\ b < Len(emb.texts) /\ b % emb.batch_size = 0
        /\ b < emb.i}

\* C15 (bounded retry with backoff): each batch gets at least one and at
\* most max_retries calls and none after a successful one; a failed attempt
\* k that is not the last is followed by a wait of retry_delay * 2^k and
\* then by attempt k + 1 of the same batch; every wait follows such an
\* attempt; no wait follows the last failed attempt or a success.
BoundedRetry ==
    emb.pc # "idle" =>
       /\ \A b \in BatchesDone :
             /\ Len(CallsOf(b)) >= 1
             /\ Len(CallsOf(b)) <= max_retries
             /\ \A k \in 1..Len(CallsOf(b)) :
                   /\ CallsOf(b)[k].attempt = k - 1
                   /\ CallsOf(b)[k].ok => k = Len(CallsOf(b))
       /\ \A k \in 1..Len(emb.log) :
             LET e == emb.log[k]
                 last == k = Len(emb.log)
             IN  /\ e.ev = "call" => e.attempt < max_retries
                 /\ (e.ev = "call" /\ ~e.ok /\ e.attempt < max_retries - 1) =>
                       /\ ~last
                       /\ emb.log[k + 1] =
                              SleepEvent(e.batch, e.attempt,
                                         retry_delay * Pow2(e.attempt))
                 /\ (e.ev = "call" /\ (e.ok \/ e.attempt = max_retries - 1)) =>
                       (last \/ /\ emb.log[k + 1].ev = "call"
                                /\ emb.log[k + 1].batch > e.batch)
                 /\ e.ev = "sleep" =>
                       /\ k > 1
                       /\ emb.log[k - 1] = CallEvent(e.batch, e.attempt, FALSE)
                       /\ last \/ emb.log[k + 1].ev = "call"
                       /\ ~last =>
                             /\ emb.log[k + 1].batch = e.batch
                             /\ emb.log[k + 1].attempt = e.attempt + 1

\* a batch that failed twice, waited 1 and 2, and then succeeded, and a
\* batch that failed for good after max_retries calls
BoundedRetryWitness ==
    /\ emb.pc = "returned" /\ Len(emb.texts) = 2 /\ emb.batch_size = 1
    /\ emb.sleeps = <<1, 2, 1, 2>>
    /\ Len(CallsOf(0)) = 3 /\ CallsOf(0)[3].ok
    /\ Len(CallsOf(1)) = 3 /\ ~CallsOf(1)[3].ok

\* C16 (degraded vectors have the service's dimension): every zero vector
\* put in for a failed batch is as long as the vectors of the configured
\* embedding model, so all vectors returned for one list have one length.
DegradedDimension ==
    emb.pc # "idle" =>
       /\ \A k \in 1..Len(emb.all_embeddings) :
             emb.all_embeddings[k].zero =>
                emb.all_embeddings[k].dim = emb.dim
       /\ \A j, k \in 1..Len(emb.all_embeddings) :
             emb.all_embeddings[j].dim = emb.all_embeddings[k].dim

(***************************************************************************)
(* The stages of one run, read from the collaborators it called.           *)
(***************************************************************************)
StageOfCall ==
    [x \in {"pipeline.extract_content"} |-> "extracting"]
    @@ [x \in {"pipeline.chunk_with_image_context", "chunk_document"}
           |-> "chunking"]
    @@ [x \in {"pipeline.generate_embeddings", "generate_embeddings"}
           |-> "embedding"]
    @@ [x \in {"upload_chunks"} |-> "indexing"]
    @@ [x \in {"upload_to_storage"} |-> "storing"]

StageRank ==
    [extracting |-> 1, chunking |-> 2, embedding |-> 3, indexing |-> 4,
     storing |-> 5]

\* the stages the run entered, in order
RECURSIVE StagesOf(_)
StagesOf(trace) ==
    IF trace = <<>> THEN <<>>
    ELSE IF Head(trace) \in DOMAIN StageOfCall
    THEN <<StageOfCall[Head(trace)]>> \o StagesOf(Tail(trace))
    ELSE StagesOf(Tail(trace))

RunFailed ==
    call.pc \in {"cleanup", "returned"} /\ call.result.error # "none"

\* C17 (per-file stage order): a run that is not skipped enters the stages
\* in the order extracting, chunking, embedding, indexing, storing, each at
\* most once and none before an earlier one, and a failed run enters no
\* stage after the one that failed.
StageOrder ==
    call.pc # "idle" =>
       LET stages == StagesOf(call.trace)
       IN  /\ \A j, k \in 1..Len(stages) :
                 j < k => StageRank[stages[j]] < StageRank[stages[k]]
           /\ \A k \in 1..Len(stages) :
                 (k > 1 /\ StageRank[stages[k]] > 2) =>
                    StageRank[stages[k - 1]] = StageRank[stages[k]] - 1
           /\ RunFailed =>
                 \A k \in 1..Len(stages) : stages[k] # "storing"

\* the object-store upload of this run was tried and failed
StoreFailed ==
    /\ call.pc \in {"cleanup", "returned"}
    /\ InTrace("upload_to_storage")
    /\ ~call.result.blob_storage_uploaded

CountInTrace(name) ==
    Cardinality({k \in 1..Len(call.trace) : call.trace[k] = name})

\* C18 (storage failure is terminal and recorded): when the object-store
\* upload fails after a successful index upload the run reports failure,
\* the file is added to failed_files and not to processed_files, the
\* upload is tried once, and the index upload stays.
StorageFailureRecorded ==
    StoreFailed =>
       /\ ~call.result.success
       /\ Len(failed_files) = Len(call.pre.failed) + 1
       /\ failed_files[Len(failed_files)].file = call.file_path
       /\ processed_files = call.pre.processed
       /\ CountInTrace("upload_to_storage") = 1
       /\ index_uploads = call.pre.index_uploads + 1

(***************************************************************************)
(* ContentChunker._get_chunk_image_context.  Texts and image ids are       *)
(* sequences of characters; ck holds the chunk, the analyses and the list  *)
(* being built.                                                            *)
(***************************************************************************)
MaxAnalyses == 2             \* analyses of one document

\* [:10] of line 187
LeadingWords == 10

\* a in b, for strings
IsSubstring(a, b) ==
    \E i \in 0..Len(b) :
       /\ i + Len(a) <= Len(b)
       /\ SubSeq(b, i + 1, i + Len(a)) = a

ImageIds      == {<<"A", "b">>, <<"b", "b">>}
AnalysisTexts == {<<>>, <<"a">>, <<"A", "b">>, <<"b", " ", "a">>}

ImageAnalyses ==
    [success : BOOLEAN, image_id : ImageIds, analysis : AnalysisTexts,
     page_number : {1}]

\* line 187: image_analysis.lower().split()[:10]
FirstWords(image_analysis) ==
    LET words == Split(Lower(image_analysis))
    IN  SubSeq(words, 1, Min(LeadingWords, Len(words)))

\* lines 186-187
MentionsImage(chunk_content, analysis) ==
    \/ IsSubstring(Lower(analysis.image_id), chunk_content)
    \/ \E k \in 1..Len(FirstWords(analysis.analysis)) :
          IsSubstring(FirstWords(analysis.analysis)[k], chunk_content)

\* lines 189-194
ContextEntry(chunk_content, analysis) ==
    [image_id |-> analysis.image_id, analysis |-> analysis.analysis,
     page_number |-> analysis.page_number,
     relevance_score |->
         _calculate_relevance_score(chunk_content, analysis.analysis)]

\* a >= b for fractions with positive denominators
FractionGeq(a, b) == a.num * b.den >= b.num * a.den

\* line 197: sort(key=relevance_score, reverse=True), equal scores keep
\* their order
RECURSIVE InsertByRelevance(_, _)
InsertByRelevance(sorted, entry) ==
    IF sorted = <<>> THEN <<entry>>
    ELSE IF FractionGeq(Head(sorted).relevance_score, entry.relevance_score)
    THEN <<Head(sorted)>> \o InsertByRelevance(Tail(sorted), entry)
    ELSE <<entry>> \o sorted

RECURSIVE SortedByRelevance(_)
SortedByRelevance(entries) ==
    IF entries = <<>> THEN <<>>
    ELSE InsertByRelevance(
             SortedByRelevance(SubSeq(entries, 1, Len(entries) - 1)),
             entries[Len(entries)])

CtxInit ==
    \E content \in SeqsUpTo(Alphabet, MaxTextLen),
       image_analyses \in SeqsUpTo(ImageAnalyses, MaxAnalyses) :
       ck = [op |-> "context", content |-> content,
             chunk_content |-> Lower(content),
             image_analyses |-> image_analyses, i |-> 0,
             relevant_images |-> <<>>]

CtxInLoop == ck.op = "context" /\ ck.i < Len(ck.image_analyses)
CtxAnalysis == ck.image_analyses[ck.i + 1]

\* lines 179-180 and the else of line 186
AnalysisLeftOut ==
    /\ CtxInLoop
    /\ ~CtxAnalysis.success \/ ~MentionsImage(ck.chunk_content, CtxAnalysis)
    /\ ck' = [ck EXCEPT !.i = @ + 1]
    /\ UNCHANGED <<pipevars, emb, sc, dr, aug, api>>

\* lines 186-194
AnalysisAttached ==
    /\ CtxInLoop
    /\ CtxAnalysis.success /\ MentionsImage(ck.chunk_content, CtxAnalysis)
    /\ ck' = [ck EXCEPT
                 !.i = @ + 1,
                 !.relevant_images =
                     Append(@, ContextEntry(ck.chunk_content, CtxAnalysis))]
    /\ UNCHANGED <<pipevars, emb, sc, dr, aug, api>>

\* lines 197-198
ContextReturn ==
    /\ ck.op = "context" /\ ck.i >= Len(ck.image_analyses)
    /\ ck' = [ck EXCEPT
                 !.op = "context_returned",
                 !.relevant_images = SortedByRelevance(@)]
    /\ UNCHANGED <<pipevars, emb, sc, dr, aug, api>>

InitContext ==
    PipeIdle /\ EmbIdle /\ CtxInit /\ ScIdle /\ DrIdle /\ AugIdle /\ ApiIdle
NextContext == AnalysisLeftOut \/ AnalysisAttached \/ ContextReturn
SpecContext == InitContext /\ [][NextContext]_vars

\* the score of an analysis for the chunk of ck
ScoreFor(analysis) ==
    _calculate_relevance_score(ck.chunk_content, analysis.analysis)

\* C19 (image_context holds exactly the relevant analyses): the list
\* returned for a chunk holds no entry of relevance score 0, holds every
\* successful analysis whose score for the chunk is above 0, and is in
\* descending order of score.
ImageContextExact ==
    ck.op = "context_returned" =>
       /\ \A k \in 1..Len(ck.relevant_images) :
             ck.relevant_images[k].relevance_score.num > 0
       /\ \A k \in 1..Len(ck.image_analyses) :
             LET a == ck.image_analyses[k]
             IN  (a.success /\ ScoreFor(a).num > 0) =>
                    \E j \in 1..Len(ck.relevant_images) :
                       /\ ck.relevant_images[j].image_id = a.image_id
                       /\ ck.relevant_images[j].analysis = a.analysis
       /\ \A j, k \in 1..Len(ck.relevant_images) :
             j < k => FractionGeq(ck.relevant_images[j].relevance_score,
                                  ck.relevant_images[k].relevance_score)

(***************************************************************************)
(* ContentChunker._integrate_image_analyses and                            *)
(* _find_image_insertion_point.  A text is its sequence of characters.     *)
(***************************************************************************)
MaxPieceCount == 3           \* pieces a text is put together from

MarkerPrefix ==
    <<"-", "-", "-", " ", "P", "a", "g", "e", " ">>
MarkerSuffix ==
    <<" ", "-", "-", "-">>
SummaryPrefix ==
    <<"\n", "\n", "[", "I", "m", "a", "g", "e", " ", "A", "n", "a", "l",
    "y", "s", "i", "s", " ", "-", " ">>

Digits == {"0", "1", "2", "3", "4", "5", "6", "7", "8", "9"}
DigitValue ==
    ("0" :> 0) @@ ("1" :> 1) @@ ("2" :> 2) @@ ("3" :> 3) @@ ("4" :> 4)
    @@ ("5" :> 5) @@ ("6" :> 6) @@ ("7" :> 7) @@ ("8" :> 8) @@ ("9" :> 9)

\* int() of a run of digits
RECURSIVE IntOf(_)
IntOf(digits) ==
    IF digits = <<>> THEN 0
    ELSE 10 * IntOf(SubSeq(digits, 1, Len(digits) - 1))
         + DigitValue[digits[Len(digits)]]

\* text[i:i + len(s)] == s, with i a 0-based offset
StartsWithAt(text, i, s) ==
    /\ i + Len(s) <= Len(text)
    /\ SubSeq(text, i + 1, i + Len(s)) = s

\* the end of the longest run of digits that starts at offset i
RECURSIVE DigitsEnd(_, _)
DigitsEnd(text, i) ==
    IF i < Len(text) /\ text[i + 1] \in Digits THEN DigitsEnd(text, i + 1)
    ELSE i

\* a match of r'--- Page \d+ ---' at offset i: its end, or -1
MarkerEndAt(text, i) ==
    IF ~StartsWithAt(text, i, MarkerPrefix) THEN -1
    ELSE LET d0 == i + Len(MarkerPrefix)
             d1 == DigitsEnd(text, d0)
         IN  IF d1 > d0 /\ StartsWithAt(text, d1, MarkerSuffix)
             THEN d1 + Len(MarkerSuffix) ELSE -1

\* line 159: list(re.finditer(...)), leftmost matches that do not overlap
RECURSIVE MarkersFrom(_, _)
MarkersFrom(text, i) ==
    IF i >= Len(text) THEN <<>>
    ELSE LET e == MarkerEndAt(text, i)
         IN  IF e < 0 THEN MarkersFrom(text, i + 1)
             ELSE <<[start |-> i, end |-> e,
                     number |-> IntOf(SubSeq(text, i + Len(MarkerPrefix) + 1,
                                             e - Len(MarkerSuffix)))]>>
                  \o MarkersFrom(text, e)

PageMarkers(text) == MarkersFrom(text, 0)

\* Python's seq[k] for -len <= k < len
PyIndex(seq, k) == IF k >= 0 THEN seq[k + 1] ELSE seq[Len(seq) + k + 1]

\* lines 155-171; page_number is within -len(page_markers)..len(page_markers)
\* whenever the branch of line 163 indexes the list
_find_image_insertion_point(text_content, page_number) ==
    LET page_markers == PageMarkers(text_content)
    IN  IF page_markers # <<>> /\ page_number <= Len(page_markers)
        THEN PyIndex(page_markers, page_number - 1).end
        ELSE Len(text_content) \div 3

\* line 142: f"\n\n[Image Analysis - {image_id}]\n{image_analysis}\n"
ImageSummary(image_id, image_analysis) ==
    SummaryPrefix \o image_id \o <<"]", "\n">> \o image_analysis \o <<"\n">>

\* lines 145-151
InsertAt(text, insertion_point, summary) ==
    IF insertion_point >= 0
    THEN SubSeq(text, 1, insertion_point) \o summary
         \o SubSeq(text, insertion_point + 1, Len(text))
    ELSE text \o summary

\* f"--- Page {n} ---", as PDFExtractor._extract_text writes it
PageMarker(digit) == MarkerPrefix \o <<digit>> \o MarkerSuffix

\* pieces of extracted text: markers of three pages and two runs of text
TextPieces ==
    {PageMarker("1"), PageMarker("2"), PageMarker("3"),
     <<"x">>, <<"x", "y", "z", "w">>}

RECURSIVE Concat(_)
Concat(pieces) ==
    IF pieces = <<>> THEN <<>> ELSE Head(pieces) \o Concat(Tail(pieces))

ExtractedTexts == {Concat(ps) : ps \in SeqsUpTo(TextPieces, MaxPieceCount)}

IntegratedAnalyses ==
    [success : BOOLEAN, image_id : {<<"i">>}, analysis : {<<>>, <<"d">>},
     page_number : 0..3]

NoInsertion ==
    [inserted |-> FALSE, before |-> <<>>, page_number |-> 0,
     insertion_point |-> 0, summary |-> <<>>]

InsInit ==
    \E text_content \in ExtractedTexts,
       image_analyses \in SeqsUpTo(IntegratedAnalyses, MaxAnalyses) :
       ck = [op |-> "integrate", text_content |-> text_content,
             image_analyses |-> image_analyses, i |-> 0,
             enhanced_content |-> text_content, last |-> NoInsertion]

InsInLoop == ck.op = "integrate" /\ ck.i < Len(ck.image_analyses)
InsAnalysis == ck.image_analyses[ck.i + 1]

\* line 133: analysis.get('success') and analysis.get('analysis')
InsWanted == InsAnalysis.success /\ InsAnalysis.analysis # <<>>

\* lines 133-151
IntegrateAnalysis ==
    /\ InsInLoop /\ InsWanted
    /\ LET insertion_point ==
               _find_image_insertion_point(ck.enhanced_content,
                                           InsAnalysis.page_number)
           image_summary ==
               ImageSummary(InsAnalysis.image_id, InsAnalysis.analysis)
       IN  ck' = [ck EXCEPT
                     !.i = @ + 1,
                     !.enhanced_content =
                         InsertAt(@, insertion_point, image_summary),
                     !.last = [inserted |-> TRUE,
                               before |-> ck.enhanced_content,
                               page_number |-> InsAnalysis.page_number,
                               insertion_point |-> insertion_point,
                               summary |-> image_summary]]
    /\ UNCHANGED <<pipevars, emb, sc, dr, aug, api>>

\* line 133 false
AnalysisNotIntegrated ==
    /\ InsInLoop /\ ~InsWanted
    /\ ck' = [ck EXCEPT !.i = @ + 1, !.last = NoInsertion]
    /\ UNCHANGED <<pipevars, emb, sc, dr, aug, api>>

\* line 153
IntegrateReturn ==
    /\ ck.op = "integrate" /\ ck.i >= Len(ck.image_analyses)
    /\ ck' = [ck EXCEPT !.op = "integrated"]
    /\ UNCHANGED <<pipevars, emb, sc, dr, aug, api>>

InitInsert ==
    PipeIdle /\ EmbIdle /\ InsInit /\ ScIdle /\ DrIdle /\ AugIdle /\ ApiIdle
NextInsert == IntegrateAnalysis \/ AnalysisNotIntegrated \/ IntegrateReturn
SpecInsert == InitInsert /\ [][NextInsert]_vars

\* the block of the last analysis was inserted
JustInserted ==
    ck.op \in {"integrate", "integrated"} /\ ck.i > 0 /\ ck.last.inserted

\* C20 (insertion point): when the text holds the marker of the
\* analysis's own page number the block is inserted right after that
\* marker, and when the text holds no page marker it is inserted at
\* offset floor(len(text) / 3).
InsertionPoint ==
    JustInserted =>
       LET markers == PageMarkers(ck.last.before)
           own == {k \in 1..Len(markers) :
                      markers[k].number = ck.last.page_number}
       IN  /\ own # {} =>
                 \E k \in own : ck.last.insertion_point = markers[k].end
           /\ markers = <<>> =>
                 ck.last.insertion_point = Len(ck.last.before) \div 3
           /\ StartsWithAt(ck.enhanced_content, ck.last.insertion_point,
                           ck.last.summary)

(***************************************************************************)
(* merge_small_chunks and the image context of the chunks it merges.       *)
(***************************************************************************)
ContextOf(chunk) == Get(chunk, "image_context", <<>>)
EntriesOf(chunk) == {ContextOf(chunk)[e] : e \in 1..Len(ContextOf(chunk))}

\* the chunks of the input an output chunk was made of: a content joins its
\* pieces with "\n\n", and the outputs take the inputs in order
PiecesIn(chunk) == (Len(chunk.content.text) + 1) \div 2

RECURSIVE RunStart(_)
RunStart(k) == IF k = 1 THEN 0 ELSE RunStart(k - 1) + PiecesIn(ck.out[k - 1])

MergedFrom(k) ==
    {ck.inp[j] : j \in (RunStart(k) + 1)..(RunStart(k) + PiecesIn(ck.out[k]))}

\* C21 (merge unions image context): a chunk merge_small_chunks made of a
\* short chunk and the chunks that follow it has as image_context the union
\* of their image_context lists: every entry of any of them is present, no
\* image_id appears more than once, and has_images is true exactly when the
\* list is non-empty.
MergeUnionsImageContext ==
    ck.op = "merge_small_chunks"
    => \A k \in 1..Len(ck.out) :
          PiecesIn(ck.out[k]) > 1 =>
             LET image_context == ContextOf(ck.out[k])
             IN  /\ EntriesOf(ck.out[k])
                       = UNION {EntriesOf(c) : c \in MergedFrom(k)}
                 /\ \A a, b \in 1..Len(image_context) :
                       image_context[a].image_id = image_context[b].image_id
                          => a = b
                 /\ Get(ck.out[k], "has_images", FALSE)
                       = (image_context # <<>>)

(***************************************************************************)
(* _group_drawings_by_proximity: the groups it returns.                    *)
(***************************************************************************)
\* a primitive without a rectangle: no 'rect' in its dict, or an empty one
NoRectangle(drawing) ==
    ~HasKey(drawing, "rect") \/ ~Truthy(drawing.rect)

RECURSIVE WithRectangle(_)
WithRectangle(drawings) ==
    IF drawings = <<>> THEN <<>>
    ELSE IF NoRectangle(Head(drawings)) THEN WithRectangle(Tail(drawings))
    ELSE <<Head(drawings)>> \o WithRectangle(Tail(drawings))

\* the groups as the code returns them: lists of drawings
AsDrawings(drawings, groups) ==
    [g \in 1..Len(groups) |->
        [k \in 1..Len(groups[g]) |-> drawings[groups[g][k]]]]

BBoxes(drawings, groups) ==
    [g \in 1..Len(groups) |-> _get_drawings_bbox(drawings, groups[g])]

Grouped == dr.op \in {"loop", "returned"}

\* C22 (primitives without a rectangle are ignored): no primitive without a
\* rectangle is the seed or a member of a group, and the groups returned, and
\* their union bounding boxes, are those of the list without such primitives.
RectlessIgnored ==
    Grouped
    => LET kept == WithRectangle(dr.drawings_list)
           kept_groups == _group_drawings_by_proximity(kept)
       IN  /\ \A g \in 1..Len(dr.visual_elements) :
                 \A k \in 1..Len(dr.visual_elements[g]) :
                    ~NoRectangle(dr.drawings_list[dr.visual_elements[g][k]])
           /\ AsDrawings(dr.drawings_list, dr.visual_elements)
                 = AsDrawings(kept, kept_groups)
           /\ BBoxes(dr.drawings_list, dr.visual_elements)
                 = BBoxes(kept, kept_groups)

\* the distance between the centers of the rectangles the grouping reads
\* for two primitives is below the threshold; an empty rectangle has no
\* distance to any other (squares of twice the distance are compared)
CentersWithin(p, q) ==
    LET a == GetRect(p)
        b == GetRect(q)
        dx == (a.v[1] + a.v[3]) - (b.v[1] + b.v[3])
        dy == (a.v[2] + a.v[4]) - (b.v[2] + b.v[4])
    IN  /\ Truthy(a) /\ Truthy(b)
        /\ dx * dx + dy * dy
              < (2 * proximity_threshold) * (2 * proximity_threshold)

\* the places <<group, position>> where primitive i is
PlacesOf(i) ==
    {pl \in (1..Len(dr.visual_elements)) \X (1..Len(dr.drawings_list)) :
        /\ pl[2] <= Len(dr.visual_elements[pl[1]])
        /\ dr.visual_elements[pl[1]][pl[2]] = i}

SeedOf(g) == dr.visual_elements[g][1]

\* C23 (anchor-based grouping): every primitive is in exactly one group; a
\* non-seed primitive Q is in the group seeded by P only if the centers of P
\* and Q are closer than the threshold and no earlier seed is that close to
\* Q; closeness to a non-seed member adds nothing to a group.
AnchorGrouping ==
    Grouped
    => /\ \A i \in 1..Len(dr.drawings_list) : Cardinality(PlacesOf(i)) = 1
       /\ \A g \in 1..Len(dr.visual_elements) :
             \A k \in 2..Len(dr.visual_elements[g]) :
                LET P == dr.drawings_list[SeedOf(g)]
                    Q == dr.drawings_list[dr.visual_elements[g][k]]
                IN  /\ CentersWithin(P, Q)
                    /\ \A h \in 1..Len(dr.visual_elements) :
                          SeedOf(h) < SeedOf(g)
                             => ~CentersWithin(dr.drawings_list[SeedOf(h)], Q)

\* two primitives closer than the threshold ended in different groups: the
\* second is close to a member of the first group, not to its seed
AnchorGroupingWitness ==
    /\ Grouped
    /\ \A i \in 1..Len(dr.drawings_list) : ~NoRectangle(dr.drawings_list[i])
    /\ \E g, h \in 1..Len(dr.visual_elements) :
          /\ g # h /\ Len(dr.visual_elements[g]) > 1
          /\ \E k \in 2..Len(dr.visual_elements[g]) :
                /\ CentersWithin(dr.drawings_list[dr.visual_elements[g][k]],
                                 dr.drawings_list[SeedOf(h)])
                /\ ~CentersWithin(dr.drawings_list[SeedOf(g)],
                                  dr.drawings_list[SeedOf(h)])

(***************************************************************************)
(* The blob names of a run, and the files it leaves in the directories.    *)
(***************************************************************************)
\* C24 (same key for check and write): in every run that asked the store
\* whether the file exists and wrote the file to the store, the blob name
\* probed equals the blob name written.
SameKeyForCheckAndWrite ==
    (call.probed_name # NoName /\ call.blob_name # NoName)
    => call.probed_name = call.blob_name

\* the files the run found or made and that are gone
DeletedFiles == (call.pre.files \cup call.written) \ files

IsVisualElementOf(f, file_path) ==
    f.kind = "visual_element" /\ f.owner = Stem(file_path)

\* C25 (retention is honoured): a run with auto_cleanup=false deletes no
\* visual-element file of its document.
RetentionHonoured ==
    (call.pc # "idle" /\ ~call.auto_cleanup)
    => \A f \in DeletedFiles : ~IsVisualElementOf(f, call.file_path)

\* C26 (cleanup touches only the document's own artifacts): every file a
\* run deletes is a visual-element file of its own document; the files of
\* other documents and the saved outputs stay.
CleanupOwnArtifactsOnly ==
    call.pc # "idle"
    => \A f \in DeletedFiles : IsVisualElementOf(f, call.file_path)

(***************************************************************************)
(* The calls the batch method makes.                                       *)
(***************************************************************************)
ByBatch == call.caller = "batch" /\ call.pc # "idle"

\* C27 (batch equals repeated single runs): every call the batch method
\* makes runs with the batch's own force_reprocess, save_outputs and
\* auto_cleanup and without an original filename, as the direct call with
\* these flags would; a batch with force_reprocess=true skips no file that
\* the store already holds.
BatchAsSingleRuns ==
    ByBatch
    => /\ call.original_filename = NoName
       /\ call.force_reprocess = batch.force_reprocess
       /\ call.save_outputs = batch.save_outputs
       /\ call.auto_cleanup = batch.auto_cleanup
       /\ (call.pc = "returned" /\ batch.force_reprocess /\ call.file_exists)
             => call.result.status # "skipped"

(***************************************************************************)
(* The three lists of the orchestrator.                                    *)
(***************************************************************************)
Entries ==
    Len(processed_files) + Len(skipped_files) + Len(failed_files)

\* list is before with one more entry at its end
OneMore(list, before) ==
    Len(list) = Len(before) + 1 /\ SubSeq(list, 1, Len(before)) = before

\* C28 (accumulator partition): a call that returned has added one entry to
\* exactly one of processed_files, skipped_files and failed_files and left
\* the two others as they were; between calls the three lengths add up to
\* the number of calls that returned, which is the number of calls made
\* when no call raised; no result in processed_files has success=false.
AccumulatorPartition ==
    /\ call.pc = "returned" =>
          \/ /\ OneMore(processed_files, call.pre.processed)
             /\ skipped_files = call.pre.skipped
             /\ failed_files = call.pre.failed
          \/ /\ OneMore(skipped_files, call.pre.skipped)
             /\ processed_files = call.pre.processed
             /\ failed_files = call.pre.failed
          \/ /\ OneMore(failed_files, call.pre.failed)
             /\ processed_files = call.pre.processed
             /\ skipped_files = call.pre.skipped
    /\ call.pc \in {"idle", "returned"} =>
          /\ Entries = calls_returned
          /\ calls_returned = calls_made => Entries = calls_made
    /\ \A k \in 1..Len(processed_files) : processed_files[k].success

\* two calls returned: one processed its file, one was skipped
AccumulatorWitness ==
    /\ call.pc = "returned"
    /\ calls_made = 2 /\ calls_returned = 2
    /\ Len(processed_files) = 1 /\ Len(skipped_files) = 1

\* the run chunked the document, got no chunk, and is past the embedding
NoChunksRun ==
    /\ call.pc \in {"cleanup", "returned"}
    /\ InTrace("generate_embeddings") /\ call.chunks = <<>>

\* C29 (no chunks means failed): a run appends to processed_files only with
\* at least one chunk and a successful index upload; a run whose extraction
\* succeeded and whose chunking gave no chunk ends failed with the error
\* 'Failed to generate embeddings', recorded in failed_files, and makes no
\* index upload and no write to the store.
NoChunksMeansFailed ==
    /\ (call.pc # "idle" /\ processed_files # call.pre.processed)
          => Len(call.chunks) >= 1 /\ call.upload_success
    /\ NoChunksRun
          => /\ ~call.result.success
             /\ call.result.error = "Failed to generate embeddings"
             /\ failed_files
                   = Append(call.pre.failed,
                            FailedEntry("Failed to generate embeddings"))
             /\ processed_files = call.pre.processed
             /\ ~InTrace("upload_chunks") /\ ~InTrace("upload_to_storage")
             /\ index_uploads = call.pre.index_uploads
             /\ blobs = call.pre.blobs

\* an extracted document with empty text ended its run as failed
NoChunksWitness ==
    /\ call.pc = "returned" /\ NoChunksRun
    /\ InTrace("process_document") /\ call.doc = EmptyDoc
    /\ call.result.error = "Failed to generate embeddings"

(***************************************************************************)
(* api/main.py: the dict processing_jobs and the background tasks.  The    *)
(* event loop runs one handler or task at a time, and the task has no      *)
(* await: each is one step.  A job id is the uuid4 of its upload.          *)
(***************************************************************************)
MaxJobs == 2                 \* uploads the API receives

JobId(n) == <<"job", n>>

DelKey(d, key) == [k \in DOMAIN d \ {key} |-> d[k]]

\* lines 156-169
NewJob == [status |-> "processing", step |-> "uploaded", result |-> "None"]

\* what process_file_with_storage_check does for the task: it returns a
\* result with success true or false, or raises (get_file_hash, line 298
\* of the orchestrator, is outside its try)
PipelineOutcomes ==
    {[kind |-> "returned", result |-> [success |-> TRUE]],
     [kind |-> "returned",
      result |-> [success |-> FALSE, error |-> "Failed to upload chunks"]],
     [kind |-> "raised"]}

\* the names process_document_background can read: its parameters and
\* locals, and the globals of the module
TaskNames ==
    {"job_id", "file_path", "original_filename", "force_reprocess",
     "result", "e", "logger", "pipeline", "processing_jobs", "datetime"}

\* lines 219-227: the except branch starts with a log line that reads the
\* name filename; a NameError there, or a KeyError at line 221, leaves the
\* task with the dict as it is
ExceptBranch(jobs, job_id) ==
    IF "filename" \notin TaskNames THEN jobs
    ELSE IF ~HasKey(jobs, job_id) THEN jobs
    ELSE Put(jobs, job_id,
             [status |-> "failed", step |-> "failed",
              result |-> [success |-> FALSE, error |-> "str(e)"]])

\* lines 185-217, with the outcome of the pipeline call
TryBranch(jobs, job_id, outcome) ==
    IF ~HasKey(jobs, job_id) THEN ExceptBranch(jobs, job_id)
    ELSE LET started == Put(jobs, job_id,
                            [jobs[job_id] EXCEPT !.status = "processing",
                                                 !.step = "processing"])
         IN  IF outcome.kind = "raised" THEN ExceptBranch(started, job_id)
             ELSE Put(started, job_id,
                      [status |-> IF outcome.result.success
                                  THEN "completed" ELSE "failed",
                       step |-> IF outcome.result.success
                                THEN "completed" ELSE "failed",
                       result |-> outcome.result])

\* startup_event: the pipeline is built, or stays None
ApiInit ==
    \E pipeline_ready \in BOOLEAN :
       api = [op |-> "serving", pipeline_ready |-> pipeline_ready,
              issued |-> 0, processing_jobs |-> <<>>, tasks |-> <<>>]

\* POST /upload, lines 116-180
upload_document ==
    /\ api.op = "serving" /\ api.pipeline_ready
    /\ api.issued < MaxJobs
    /\ \E force_reprocess \in BOOLEAN :
         LET job_id == JobId(api.issued + 1)
         IN  api' = [api EXCEPT
                        !.issued = @ + 1,
                        !.processing_jobs = Put(@, job_id, NewJob),
                        !.tasks = Put(@, job_id,
                                      [state |-> "pending",
                                       force_reprocess |-> force_reprocess])]
    /\ UNCHANGED <<pipevars, emb, ck, sc, dr, aug>>

\* the background task of a job, lines 182-227
process_document_background ==
    /\ api.op = "serving"
    /\ \E job_id \in DOMAIN api.tasks, outcome \in PipelineOutcomes :
          /\ api.tasks[job_id].state = "pending"
          /\ api' = [api EXCEPT
                        !.processing_jobs = TryBranch(@, job_id, outcome),
                        !.tasks = Put(@, job_id,
                                      [api.tasks[job_id] EXCEPT
                                          !.state = "ended"])]
    /\ UNCHANGED <<pipevars, emb, ck, sc, dr, aug>>

\* DELETE /jobs/{job_id}, lines 276-285
delete_job ==
    /\ api.op = "serving"
    /\ \E job_id \in DOMAIN api.processing_jobs :
          api' = [api EXCEPT !.processing_jobs = DelKey(@, job_id)]
    /\ UNCHANGED <<pipevars, emb, ck, sc, dr, aug>>

InitApi ==
    PipeIdle /\ EmbIdle /\ CkIdle /\ ScIdle /\ DrIdle /\ AugIdle /\ ApiInit
NextApi == upload_document \/ process_document_background \/ delete_job
SpecApi == InitApi /\ [][NextApi]_vars

FinalStatuses == {"completed", "failed"}

\* every job whose task has ended is completed or failed
StatusSettled ==
    api.op = "serving"
    => \A job_id \in DOMAIN api.processing_jobs :
          api.tasks[job_id].state = "ended"
             => api.processing_jobs[job_id].status \in FinalStatuses

\* a new job starts as processing; a completed or failed job keeps its status
StatusSteps ==
    (api.op = "serving" /\ api'.op = "serving")
    => /\ \A job_id \in DOMAIN api'.processing_jobs
                           \ DOMAIN api.processing_jobs :
             api'.processing_jobs[job_id].status = "processing"
       /\ \A job_id \in DOMAIN api.processing_jobs
                           \cap DOMAIN api'.processing_jobs :
             api.processing_jobs[job_id].status \in FinalStatuses
                => api'.processing_jobs[job_id].status
                      = api.processing_jobs[job_id].status

\* C30 (job status reaches a final value): a job is registered with status
\* 'processing'; once its background task has run its status is 'completed'
\* or 'failed', also when the pipeline call raised; a completed or failed
\* job never changes status again.
JobStatusFinal == []StatusSettled /\ [][StatusSteps]_vars
====
